---- MODULE Spec2Model ----
(***************************************************************************)
(* Model of the Bayesian factored value-learning engine of decBRL:         *)
(*   - the Normal-Gamma belief and its observe() overloads                 *)
(*     (include/dec_brl/NormalGamma.h),                                    *)
(*   - the decentralised learner built on it                               *)
(*     (include/dec_brl/DecBayesModelLearner.h).                           *)
(*                                                                         *)
(* Real numbers are C++ doubles: IEEE 754 binary64 values with rounding to *)
(* nearest (ties to even), signed zeros, infinities, NaN, overflow and     *)
(* gradual underflow.  A double is a record [k, s, m, e]: its kind, sign   *)
(* bit, significand (a natural number held as a list of limbs) and binary  *)
(* exponent.  Every arithmetic operator below returns the double the       *)
(* hardware operation returns.                                             *)
(***************************************************************************)
EXTENDS Integers, Sequences, FiniteSets, TLC

(***************************************************************************)
(* Natural numbers of any size, as little-endian sequences of limbs below  *)
(* 2^15 without leading zero limbs; <<>> is zero.                          *)
(***************************************************************************)
Base == 32768

IMax(a, b) == IF a > b THEN a ELSE b

RECURSIVE Pow2(_)
Pow2(k) == IF k = 0 THEN 1 ELSE 2 * Pow2(k - 1)

RECURSIVE BTrim(_)
BTrim(x) ==
    IF x # <<>> /\ x[Len(x)] = 0 THEN BTrim(SubSeq(x, 1, Len(x) - 1)) ELSE x

\* the natural n < 2^31
BNat(n) == BTrim(<<n % Base, (n \div Base) % Base, n \div (Base * Base)>>)

\* x + y + c, limb by limb
RECURSIVE BAddC(_, _, _)
BAddC(x, y, c) ==
    IF x = <<>> /\ y = <<>> THEN (IF c = 0 THEN <<>> ELSE <<c>>)
    ELSE LET t == (IF x = <<>> THEN 0 ELSE Head(x))
                  + (IF y = <<>> THEN 0 ELSE Head(y)) + c
         IN  <<t % Base>> \o BAddC(IF x = <<>> THEN x ELSE Tail(x),
                                   IF y = <<>> THEN y ELSE Tail(y), t \div Base)

BAdd(x, y) == BTrim(BAddC(x, y, 0))

\* x - y - b for x >= y + b
RECURSIVE BSubB(_, _, _)
BSubB(x, y, b) ==
    IF x = <<>> THEN <<>>
    ELSE LET t == Head(x) - (IF y = <<>> THEN 0 ELSE Head(y)) - b
         IN  <<IF t < 0 THEN t + Base ELSE t>>
                 \o BSubB(Tail(x), IF y = <<>> THEN y ELSE Tail(y),
                          IF t < 0 THEN 1 ELSE 0)

BSub(x, y) == BTrim(BSubB(x, y, 0))

RECURSIVE BCmpAt(_, _, _)
BCmpAt(x, y, i) ==
    IF i = 0 THEN 0
    ELSE IF x[i] < y[i] THEN -1
    ELSE IF x[i] > y[i] THEN 1
    ELSE BCmpAt(x, y, i - 1)

\* -1, 0 or 1 as x is below, equal to or above y
BCmp(x, y) ==
    IF Len(x) < Len(y) THEN -1
    ELSE IF Len(x) > Len(y) THEN 1
    ELSE BCmpAt(x, y, Len(x))

\* x * k + c for one limb k and a carry c
RECURSIVE BMulS(_, _, _)
BMulS(x, k, c) ==
    IF x = <<>> THEN (IF c = 0 THEN <<>> ELSE <<c>>)
    ELSE <<(Head(x) * k + c) % Base>> \o BMulS(Tail(x), k, (Head(x) * k + c) \div Base)

\* x * k + rest * Base
BMulStep(x, k, rest) ==
    BAdd(BTrim(BMulS(x, k, 0)), IF rest = <<>> THEN rest ELSE <<0>> \o rest)

RECURSIVE BMul(_, _)
BMul(x, y) ==
    IF x = <<>> \/ y = <<>> THEN <<>> ELSE BMulStep(x, Head(y), BMul(x, Tail(y)))

\* x * 2^n
BShl(x, n) ==
    IF x = <<>> THEN x
    ELSE [i \in 1 .. n \div 15 |-> 0] \o BMulS(x, Pow2(n % 15), 0)

\* y \div p for p = 2^k and h = 2^(15 - k), k < 15
BShrLimbs(y, p, h) ==
    BTrim([i \in 1 .. Len(y) |->
              (y[i] \div p) + (IF i < Len(y) THEN (y[i + 1] % p) * h ELSE 0)])

\* x \div 2^n
BShr(x, n) ==
    BShrLimbs(IF n \div 15 >= Len(x) THEN <<>> ELSE SubSeq(x, n \div 15 + 1, Len(x)),
              Pow2(n % 15), Pow2(15 - (n % 15)))

\* x % 2^n
BLow(x, n) ==
    IF n \div 15 >= Len(x) THEN x
    ELSE BTrim(SubSeq(x, 1, n \div 15) \o <<x[n \div 15 + 1] % Pow2(n % 15)>>)

RECURSIVE LimbLen(_)
LimbLen(v) == IF v = 0 THEN 0 ELSE 1 + LimbLen(v \div 2)

\* the number of binary digits of x
BBitLen(x) == IF x = <<>> THEN 0 ELSE 15 * (Len(x) - 1) + LimbLen(x[Len(x)])

\* binary digit i of x
BBit(x, i) == IF i \div 15 >= Len(x) THEN 0 ELSE (x[i \div 15 + 1] \div Pow2(i % 15)) % 2

\* the largest digit t <= est with t * d <= cur
RECURSIVE BDigit(_, _, _)
BDigit(cur, d, est) ==
    IF BCmp(BTrim(BMulS(d, est, 0)), cur) <= 0 THEN est ELSE BDigit(cur, d, est - 1)

\* a first guess of the next digit of cur \div d, from the top limbs
BGuess(cur, d) ==
    IMax(0, ((IF Len(cur) > Len(d) THEN cur[Len(d) + 1] ELSE 0) * Base
             + (IF Len(cur) >= Len(d) THEN cur[Len(d)] ELSE 0)) \div d[Len(d)])

\* long division of the limbs i .. 1 of n by d, whose top limb is at least
\* Base / 2; q holds the digits found so far and r < d the running remainder
RECURSIVE BDivLoop(_, _, _, _, _)
RECURSIVE BDivCur(_, _, _, _, _)
RECURSIVE BDivDigit(_, _, _, _, _, _)
BDivLoop(n, d, q, r, i) ==
    IF i = 0 THEN <<BTrim(q), r>> ELSE BDivCur(n, d, q, BTrim(<<n[i]>> \o r), i)

BDivCur(n, d, q, cur, i) ==
    BDivDigit(n, d, q, cur, i,
              BDigit(cur, d, IF BGuess(cur, d) > Base - 1 THEN Base - 1 ELSE BGuess(cur, d)))

BDivDigit(n, d, q, cur, i, t) ==
    BDivLoop(n, d, <<t>> \o q, BSub(cur, BTrim(BMulS(d, t, 0))), i - 1)

BDivStart(n, d) == BDivLoop(n, d, <<>>, <<>>, Len(n))

BDivEnd(qr, up) == <<qr[1], BShr(qr[2], up)>>

BDivUp(n, d, up) == BDivEnd(BDivStart(BShl(n, up), BShl(d, up)), up)

\* <<n div d, n mod d>> for d # 0
BDivMod(n, d) == BDivUp(n, d, 15 - LimbLen(d[Len(d)]))

RECURSIVE BPow10(_)
BPow10(k) == IF k = 0 THEN <<1>> ELSE BMulS(BPow10(k - 1), 10, 0)

(***************************************************************************)
(* IEEE 754 binary64 (C++ double), round to nearest, ties to even.         *)
(* A finite double is (-1)^s * m * 2^e with m < 2^53 and e >= -1074, m     *)
(* having 53 digits unless e = -1074; zero has m = <<>> and e = 0.         *)
(***************************************************************************)
Num(s, m, e) == [k |-> "num", s |-> s, m |-> m, e |-> e]

Inf(s) == [k |-> "inf", s |-> s, m |-> <<>>, e |-> 0]

NaN == [k |-> "nan", s |-> 0, m |-> <<>>, e |-> 0]

IsNaN(a) == a.k = "nan"

IsZero(a) == a.k = "num" /\ a.m = <<>>

\* the double (-1)^s * q1 * 2^re, q1 < 2^54 being a mantissa after rounding
RoundCarry(sgn, q1, re) ==
    IF q1 = <<>> THEN Num(sgn, <<>>, 0)
    ELSE IF BBitLen(q1) = 54
         THEN (IF re + 1 > 971 THEN Inf(sgn) ELSE Num(sgn, BShr(q1, 1), re + 1))
    ELSE IF re > 971 THEN Inf(sgn)
    ELSE Num(sgn, q1, re)

\* kept rounded up or not, as the digits dropped compare with one half
RoundHalf(sgn, kept, half, re) ==
    RoundCarry(sgn,
               IF half > 0 \/ (half = 0 /\ BBit(kept, 0) = 1)
               THEN BAddC(kept, <<>>, 1) ELSE kept,
               re)

RoundShift(sgn, mant, ex2, shift) ==
    IF shift <= 0
    THEN (IF ex2 + shift > 971 THEN Inf(sgn)
          ELSE Num(sgn, BShl(mant, -shift), ex2 + shift))
    ELSE RoundHalf(sgn, BShr(mant, shift),
                   BCmp(BLow(mant, shift), BShl(<<1>>, shift - 1)), ex2 + shift)

\* the double nearest to (-1)^s * M * 2^E
RoundPack(sgn, mant, ex2) ==
    IF mant = <<>> THEN Num(sgn, <<>>, 0)
    ELSE RoundShift(sgn, mant, ex2, IMax(BBitLen(mant) - 53, (-1074) - ex2))

\* (-1)^sx * X * 2^E + (-1)^sy * Y * 2^E for X, Y not zero, c comparing X with Y
AddCompared(sx, sy, X, Y, E, c) ==
    IF sx # sy /\ c = 0 THEN Num(0, <<>>, 0)
    ELSE RoundPack(IF sx = sy \/ c > 0 THEN sx ELSE sy,
                   IF sx = sy THEN BAdd(X, Y)
                   ELSE IF c > 0 THEN BSub(X, Y) ELSE BSub(Y, X),
                   E)

AddAligned(sx, sy, X, Y, E) == AddCompared(sx, sy, X, Y, E, BCmp(X, Y))

\* x + y for finite non-zero x and y with x.e >= y.e, taken with signs sx, sy:
\* a y far below the last digit of x counts as a sticky digit only
AddOrdered(x, sx, y, sy) ==
    AddAligned(sx, sy,
               BShl(x.m, IF x.e - y.e > 64 THEN 3 ELSE x.e - y.e),
               IF x.e - y.e > 64 THEN <<1>> ELSE y.m,
               IF x.e - y.e > 64 THEN x.e - 3 ELSE y.e)

\* a + b for finite non-zero a and b, b taken with the sign sb
AddMag(a, b, sb) ==
    AddOrdered(IF a.e < b.e THEN b ELSE a, IF a.e < b.e THEN sb ELSE a.s,
               IF a.e < b.e THEN a ELSE b, IF a.e < b.e THEN a.s ELSE sb)

AddS(a, b, sb) ==
    IF IsNaN(a) \/ IsNaN(b) THEN NaN
    ELSE IF a.k = "inf" THEN (IF b.k = "inf" /\ sb # a.s THEN NaN ELSE a)
    ELSE IF b.k = "inf" THEN Inf(sb)
    ELSE IF a.m = <<>> /\ b.m = <<>> THEN Num(IF a.s = 1 /\ sb = 1 THEN 1 ELSE 0, <<>>, 0)
    ELSE IF b.m = <<>> THEN a
    ELSE IF a.m = <<>> THEN Num(sb, b.m, b.e)
    ELSE AddMag(a, b, sb)

RAdd(a, b) == AddS(a, b, b.s)

RSub(a, b) == AddS(a, b, 1 - b.s)

RMul(a, b) ==
    IF IsNaN(a) \/ IsNaN(b) THEN NaN
    ELSE IF a.k = "inf" \/ b.k = "inf"
         THEN (IF IsZero(a) \/ IsZero(b) THEN NaN ELSE Inf((a.s + b.s) % 2))
    ELSE IF a.m = <<>> \/ b.m = <<>> THEN Num((a.s + b.s) % 2, <<>>, 0)
    ELSE RoundPack((a.s + b.s) % 2, BMul(a.m, b.m), a.e + b.e)

\* the quotient with one more digit that tells whether a remainder is left
RatioSticky(sg, qr, ex) ==
    RoundPack(sg, BAddC(qr[1], qr[1], IF qr[2] = <<>> THEN 0 ELSE 1), ex)

RatioShift(sg, num, den, ex, sh) ==
    RatioSticky(sg, BDivMod(BShl(num, sh), den), ex - sh - 1)

\* the double nearest to (-1)^s * (N / D) * 2^E, N and D not zero
Ratio(sg, num, den, ex) ==
    RatioShift(sg, num, den, ex, IMax(0, BBitLen(den) + 56 - BBitLen(num)))

RDiv(a, b) ==
    IF IsNaN(a) \/ IsNaN(b) THEN NaN
    ELSE IF a.k = "inf" THEN (IF b.k = "inf" THEN NaN ELSE Inf((a.s + b.s) % 2))
    ELSE IF b.k = "inf" THEN Num((a.s + b.s) % 2, <<>>, 0)
    ELSE IF b.m = <<>> THEN (IF a.m = <<>> THEN NaN ELSE Inf((a.s + b.s) % 2))
    ELSE IF a.m = <<>> THEN Num((a.s + b.s) % 2, <<>>, 0)
    ELSE Ratio((a.s + b.s) % 2, a.m, b.m, a.e - b.e)

\* the double nearest to the quotient of the integers p and q, q not zero
R(p, q) ==
    IF p = 0 THEN Num(0, <<>>, 0)
    ELSE Ratio(IF (p < 0) = (q < 0) THEN 0 ELSE 1,
               BNat(IF p < 0 THEN -p ELSE p), BNat(IF q < 0 THEN -q ELSE q), 0)

\* the double a decimal literal p e-w denotes
Dec(p, w) ==
    IF p = 0 THEN Num(0, <<>>, 0)
    ELSE Ratio(IF p < 0 THEN 1 ELSE 0, BNat(IF p < 0 THEN -p ELSE p), BPow10(w), 0)

\* 0.0, and 1.0, 2.0 and 0.5 with the significand 2^52
Zero == Num(0, <<>>, 0)
One  == Num(0, <<0, 0, 0, 128>>, -52)
Two  == Num(0, <<0, 0, 0, 128>>, -51)
Half == Num(0, <<0, 0, 0, 128>>, -53)

\* -1, 0 or 1 as |a| is below, equal to or above |b|, neither a NaN
MagCmp(a, b) ==
    IF a.k = "inf" THEN (IF b.k = "inf" THEN 0 ELSE 1)
    ELSE IF b.k = "inf" THEN -1
    ELSE IF a.m = <<>> THEN (IF b.m = <<>> THEN 0 ELSE -1)
    ELSE IF b.m = <<>> THEN 1
    ELSE IF a.e # b.e THEN (IF a.e < b.e THEN -1 ELSE 1)
    ELSE BCmp(a.m, b.m)

\* -1, 0 or 1 as a is below, equal to or above b, neither a NaN
RCmp(a, b) ==
    IF IsZero(a) /\ IsZero(b) THEN 0
    ELSE IF a.s # b.s THEN (IF a.s = 1 THEN -1 ELSE 1)
    ELSE IF a.s = 0 THEN MagCmp(a, b)
    ELSE -MagCmp(a, b)

RLess(a, b) == ~IsNaN(a) /\ ~IsNaN(b) /\ RCmp(a, b) < 0
RLeq(a, b)  == ~IsNaN(a) /\ ~IsNaN(b) /\ RCmp(a, b) <= 0
REq(a, b)   == ~IsNaN(a) /\ ~IsNaN(b) /\ RCmp(a, b) = 0
RAbs(a)     == IF IsNaN(a) THEN a ELSE [a EXCEPT !.s = 0]

(***************************************************************************)
(* Bounds of the model                                                     *)
(***************************************************************************)
\* number of NormalGamma-level calls explored from a prior
MaxCalls == 3
\* number of learner calls (setStates, actGreedy, act, observe) explored
MaxLearnerCalls == 2

\* calls made on a learner and its copy, registrations of factors aside: room
\* for a copy construction, a copy assignment and a call after them
MaxCloneCalls == 3

\* calls made on DecBayesQ learners and their copies
MaxQCalls == 3

\* largest number of samples sampledVPI is asked to draw
MaxSamples == 2

(***************************************************************************)
(* maxsum::DiscreteFunction, as far as the engine uses it: a sorted list   *)
(* of variables and one value per linear index 0 .. size-1.                *)
(***************************************************************************)
\* the variable registry: the registered variable ids and their cardinalities
\* (maxsum::registerVariable)
VarSizes == (1 :> 2) @@ (2 :> 2) @@ (3 :> 2)

getDomainSize(v) == VarSizes[v]

RECURSIVE domainSize(_)
domainSize(vars) ==
    IF vars = <<>> THEN 1 ELSE getDomainSize(Head(vars)) * domainSize(Tail(vars))

\* a function with no variables and the single value v (construction from a double)
DFConst(v) == [vars |-> <<>>, vals |-> [i \in {0} |-> v]]

\* elementwise  f op= scalar  and  f op= g  (g over the same domain)
DFAddS(f, c) == [f EXCEPT !.vals = [i \in DOMAIN f.vals |-> RAdd(f.vals[i], c)]]
DFSubS(f, c) == [f EXCEPT !.vals = [i \in DOMAIN f.vals |-> RSub(f.vals[i], c)]]
DFDivS(f, c) == [f EXCEPT !.vals = [i \in DOMAIN f.vals |-> RDiv(f.vals[i], c)]]
DFAdd(f, g)  == [f EXCEPT !.vals = [i \in DOMAIN f.vals |-> RAdd(f.vals[i], g.vals[i])]]
DFMul(f, g)  == [f EXCEPT !.vals = [i \in DOMAIN f.vals |-> RMul(f.vals[i], g.vals[i])]]
DFDiv(f, g)  == [f EXCEPT !.vals = [i \in DOMAIN f.vals |-> RDiv(f.vals[i], g.vals[i])]]

\* linear index of the assignment a (a function on the variables) in the
\* domain of vars; the first variable varies fastest
RECURSIVE sub2ind(_, _)
sub2ind(vs, a) ==
    IF vs = <<>> THEN 0
    ELSE a[Head(vs)] + getDomainSize(Head(vs)) * sub2ind(Tail(vs), a)

\* the assignment of vars with linear index i
RECURSIVE ind2sub(_, _)
ind2sub(vs, i) ==
    IF vs = <<>> THEN <<>>
    ELSE (Head(vs) :> (i % getDomainSize(Head(vs))))
            @@ ind2sub(Tail(vs), i \div getDomainSize(Head(vs)))

RECURSIVE SeqFilter(_, _)
SeqFilter(vs, keep) ==
    IF vs = <<>> THEN <<>>
    ELSE IF Head(vs) \in keep THEN <<Head(vs)>> \o SeqFilter(Tail(vs), keep)
    ELSE SeqFilter(Tail(vs), keep)

Range(sq) == {sq[i] : i \in DOMAIN sq}

\* the elements of a set of ids in ascending order (iteration order of std::set)
RECURSIVE SortedSeq(_)
SortedSeq(S) ==
    IF S = {} THEN <<>>
    ELSE LET lo == CHOOSE x \in S : \A y \in S : x <= y
         IN  <<lo>> \o SortedSeq(S \ {lo})

\* maxsum::condition(inFun, outFun, vars): inFun with the variables that vars
\* assigns fixed to their values, as a function of the remaining variables
condition(inFun, states) ==
    LET kept == SeqFilter(inFun.vars, Range(inFun.vars) \ DOMAIN states)
    IN  [vars |-> kept,
         vals |-> [i \in 0 .. domainSize(kept) - 1 |->
                     inFun.vals[sub2ind(inFun.vars, ind2sub(kept, i) @@ states)]]]

(***************************************************************************)
(* NormalGamma_Tmpl: the four hyperparameters, scalars or DiscreteFunctions *)
(***************************************************************************)
NormalGamma(a, b, l, mm) == [alpha |-> a, beta |-> b, lambda |-> l, m |-> mm]

\* the library defaults: the doubles of the literals 0.00000001,
\* 0.00000000000000001, 0.00000000000000000000001 and 0.0
DEFAULT_ALPHA  == Dec(1, 8)
DEFAULT_BETA   == Dec(1, 17)
DEFAULT_LAMBDA == Dec(1, 23)
DEFAULT_M      == Zero

\* the quadruple a vectorised belief stores at linear index k
At(dist, k) == NormalGamma(dist.alpha.vals[k], dist.beta.vals[k],
                           dist.lambda.vals[k], dist.m.vals[k])

\* a vectorised belief over vars holding the quadruple q at every index
\* (construction from scalars followed by expand)
Replicate(q, vars) ==
    LET tab(v) == [vars |-> vars, vals |-> [i \in 0 .. domainSize(vars) - 1 |-> v]]
    IN  NormalGamma(tab(q.alpha), tab(q.beta), tab(q.lambda), tab(q.m))

\* DiscreteFunction::expand(varBegin, varEnd): f as a function of its variables
\* and vs; variables f already has are kept
expandDF(f, vs) ==
    LET all == SortedSeq(Range(f.vars) \cup Range(vs))
    IN  [vars |-> all,
         vals |-> [i \in 0 .. domainSize(all) - 1 |->
                     f.vals[sub2ind(f.vars, ind2sub(all, i))]]]

\* expand(paramDist, varBegin, varEnd)
expand(paramDist, vs) ==
    NormalGamma(expandDF(paramDist.alpha, vs), expandDF(paramDist.beta, vs),
                expandDF(paramDist.lambda, vs), expandDF(paramDist.m, vs))

\* observe with the sign of the beta increment flipped
observe_betaMinus(paramDist, x) ==
    LET newLambda == RAdd(paramDist.lambda, One)
        d         == RSub(paramDist.m, x)
    IN  NormalGamma(RAdd(paramDist.alpha, Half),
                    RSub(paramDist.beta,
                         RDiv(RDiv(RMul(RMul(paramDist.lambda, d), d), Two), newLambda)),
                    newLambda,
                    RDiv(RAdd(RMul(paramDist.lambda, paramDist.m), x), newLambda))

\* observe(paramDist, x), scalar overload
observe(paramDist, x) ==
    LET oldAlpha  == paramDist.alpha
        oldBeta   == paramDist.beta
        oldLambda == paramDist.lambda
        oldM      == paramDist.m
        newAlpha  == RAdd(oldAlpha, Half)
        newLambda == RAdd(oldLambda, One)
        newM      == RDiv(RAdd(RMul(oldLambda, oldM), x), newLambda)
        newBeta   == RAdd(oldBeta,
                        RDiv(RDiv(RMul(RMul(oldLambda, RSub(oldM, x)), RSub(oldM, x)),
                                  Two), newLambda))
    IN  NormalGamma(newAlpha, newBeta, newLambda, newM)

\* the vectorised observe with m updated before the beta increment is formed
observeVec_newM(paramDist, x) ==
    LET lambda    == paramDist.lambda
        newLambda == DFAddS(lambda, One)
        m3        == DFDiv(DFAddS(DFMul(paramDist.m, lambda), x), newLambda)
        tmp1      == DFSubS(m3, x)
        tmp5      == DFDiv(DFDivS(DFMul(DFMul(tmp1, tmp1), lambda), Two), newLambda)
    IN  NormalGamma(DFAddS(paramDist.alpha, Half), DFAdd(paramDist.beta, tmp5),
                    newLambda, m3)

\* observe(paramDist, x), overload for DiscreteFunction hyperparameters:
\* the in-place elementwise statements of the source, in their order
observeVec(paramDist, x) ==
    LET alpha0    == paramDist.alpha
        beta0     == paramDist.beta
        lambda    == paramDist.lambda
        m0        == paramDist.m
        newLambda == DFAddS(lambda, One)
        alpha1    == DFAddS(alpha0, Half)
        tmp1      == DFSubS(m0, x)
        tmp2      == DFMul(tmp1, tmp1)
        tmp3      == DFMul(tmp2, lambda)
        tmp4      == DFDivS(tmp3, Two)
        tmp5      == DFDiv(tmp4, newLambda)
        beta1     == DFAdd(beta0, tmp5)
        m1        == DFMul(m0, lambda)
        m2        == DFAddS(m1, x)
        m3        == DFDiv(m2, newLambda)
    IN  NormalGamma(alpha1, beta1, newLambda, m3)

\* the indexed observe writing its result to every element of the domain
observeAt_everyIndex(paramDist, index, x) ==
    LET q  == NormalGamma(paramDist.alpha.vals[index], paramDist.beta.vals[index],
                          paramDist.lambda.vals[index], paramDist.m.vals[index])
        nl == RAdd(q.lambda, One)
        d  == RSub(q.m, x)
        tab(f, v) == [f EXCEPT !.vals = [i \in DOMAIN f.vals |-> v]]
    IN  [alpha  |-> tab(paramDist.alpha, RAdd(q.alpha, Half)),
         beta   |-> tab(paramDist.beta,
                        RAdd(q.beta, RDiv(RDiv(RMul(RMul(q.lambda, d), d), Two), nl))),
         lambda |-> tab(paramDist.lambda, nl),
         m      |-> tab(paramDist.m, RDiv(RAdd(RMul(q.lambda, q.m), x), nl))]

\* observe(paramDist, index, x): one element of the domain only
observeAt(paramDist, index, x) ==
    LET oldAlpha  == paramDist.alpha.vals[index]
        oldBeta   == paramDist.beta.vals[index]
        oldLambda == paramDist.lambda.vals[index]
        oldM      == paramDist.m.vals[index]
        newAlpha  == RAdd(oldAlpha, Half)
        newLambda == RAdd(oldLambda, One)
        newM      == RDiv(RAdd(RMul(oldLambda, oldM), x), newLambda)
        newBeta   == RAdd(oldBeta,
                        RDiv(RDiv(RMul(RMul(oldLambda, RSub(oldM, x)), RSub(oldM, x)),
                                  Two), newLambda))
    IN  [alpha  |-> [paramDist.alpha  EXCEPT !.vals[index] = newAlpha],
         beta   |-> [paramDist.beta   EXCEPT !.vals[index] = newBeta],
         lambda |-> [paramDist.lambda EXCEPT !.vals[index] = newLambda],
         m      |-> [paramDist.m      EXCEPT !.vals[index] = newM]]

\* observe(paramDist, sm, s2, n): the three sufficient-statistics overloads.
\* Their bodies in the source are empty: the belief is left as it was.
observeMoments(paramDist, sm, s2, n) == paramDist

observeMomentsVec(paramDist, sm, s2, n) == paramDist

\* an indexed moment update that moves the mean to the sample mean at every index
observeMomentsAt_everyIndex(paramDist, index, sm, s2, n) ==
    [paramDist EXCEPT !.m.vals = [i \in DOMAIN paramDist.m.vals |-> sm]]

observeMomentsAt(paramDist, index, sm, s2, n) == paramDist

(***************************************************************************)
(* maxsum::MaxSumController, the external Coordinator, as far as the       *)
(* learner uses it.  A world w = [ms, trace] is the controller's state ms  *)
(* together with the list of controller calls made by the running handler. *)
(*   ms.factors : factor id -> [value, bonus], the value table handed in   *)
(*                and the VPI terms added to it in place since;            *)
(*   ms.values  : the joint assignment found by the last optimise;         *)
(*   ms.totals  : factor id -> the total value (own table plus messages)   *)
(*                cached by the last optimise;                             *)
(*   ms.epoch   : the number of optimise calls so far.                     *)
(***************************************************************************)
EmptyMap == <<>>

Put(map, k, v) == [x \in DOMAIN map \cup {k} |-> IF x = k THEN v ELSE map[x]]

NewController == [factors |-> EmptyMap, values |-> EmptyMap,
                  totals |-> EmptyMap, epoch |-> 0]

Table(fn) == [value |-> fn, bonus |-> <<>>]

Logged(w, ms, entry) == [ms |-> ms, trace |-> Append(w.trace, entry)]

\* setFactor(id, fn)
msSetFactor(w, f, fn) ==
    Logged(w, [w.ms EXCEPT !.factors = Put(@, f, Table(fn))],
           [call |-> "setFactor", factor |-> f])

\* getUnSafeWritableFactorHandle(id) followed by an assignment through the handle
msAssignThroughHandle(w, f, fn) ==
    Logged(w, [w.ms EXCEPT !.factors = Put(@, f, Table(fn))],
           [call |-> "getUnSafeWritableFactorHandle", factor |-> f,
            known |-> f \in DOMAIN w.ms.factors, write |-> "assign"])

\* getUnSafeWritableFactorHandle(id) += bonus
msAddThroughHandle(w, f, bonus) ==
    LET old == IF f \in DOMAIN w.ms.factors THEN w.ms.factors[f]
               ELSE Table(DFConst(Zero))
    IN  Logged(w, [w.ms EXCEPT !.factors =
                       Put(@, f, [old EXCEPT !.bonus = Append(@, bonus)])],
               [call |-> "getUnSafeWritableFactorHandle", factor |-> f,
                known |-> f \in DOMAIN w.ms.factors, write |-> "add", bonus |-> bonus])

\* notifyFactor(id)
msNotifyFactor(w, f) == Logged(w, w.ms, [call |-> "notifyFactor", factor |-> f])

\* optimise(): n iterations on the tables the controller holds, ending in the
\* joint assignment a
msOptimise(w, n, a) ==
    Logged(w, [w.ms EXCEPT !.values = a,
                           !.epoch = @ + 1,
                           !.totals = [f \in DOMAIN w.ms.factors |->
                                          [factor |-> f, epoch |-> w.ms.epoch + 1,
                                           vars |-> w.ms.factors[f].value.vars]]],
           [call |-> "optimise", iterations |-> n, tables |-> w.ms.factors])

\* getTotalValue(id)
msGetTotalValue(w, f) == Logged(w, w.ms, [call |-> "getTotalValue", factor |-> f])

\* the variables of the factor graph, and the joint assignments optimise can end in
GraphVars(ms) == UNION {Range(ms.factors[f].value.vars) : f \in DOMAIN ms.factors}

\* the joint assignments of vs an optimise call may end in
Assignments(vs) == { [v \in vs |-> 0], [v \in vs |-> getDomainSize(v) - 1] }

(***************************************************************************)
(* exactVPI(totValDist, localVPI) for DiscreteFunction beliefs: the table  *)
(* of VPI values of the conditioned belief, kept as an uninterpreted term. *)
(***************************************************************************)
exactVPIVec(totValDist) == [vpi |-> "exactVPI", dist |-> totValDist]

(***************************************************************************)
(* Value of perfect information of a scalar belief (vpi.h).  The values of *)
(* lgamma, log1p, exp, sqrt and of the Student-t distribution functions    *)
(* are kept as terms of their arguments; the tests that decide which term  *)
(* is returned are those of the code.                                      *)
(***************************************************************************)
\* Limits<RealType>::infinity(): std::numeric_limits<double>::infinity()
Infinity == Inf(0)

\* meanMarginal(dist): the Student-t marginal of the mean
meanMarginal(dist) ==
    [df |-> RMul(dist.alpha, Two), loc |-> dist.m,
     scale |-> [fn |-> "sqrt", of |-> RDiv(RDiv(dist.beta, dist.lambda), dist.alpha)]]

\* NonCentralT_Tmpl::hasVariance()
hasVariance(marginal) == RLess(Two, marginal.df)

\* variance(marginal) (NonCentralT.h): infinity below two degrees of freedom,
\* else the product with the variance Boost.Math gives for the base
\* distribution, returned past assert(result>0)
variance(marginal) ==
    IF RLess(marginal.df, Two) THEN Infinity
    ELSE [value |-> "scale * scale * variance(base)",
          scale |-> marginal.scale, df |-> marginal.df, asserted |-> "result > 0"]

\* standard_deviation(marginal) (NonCentralT.h)
standard_deviation(marginal) ==
    IF RLess(marginal.df, Two) THEN Infinity
    ELSE [value |-> "scale * standard_deviation(base)",
          scale |-> marginal.scale, df |-> marginal.df, asserted |-> "result > 0"]

\* truncationBias(dist, x)
truncationBias(dist, x) ==
    IF RLess(dist.alpha, Half) THEN Infinity
    ELSE [value |-> "exp(lnResult)", alpha |-> dist.alpha, beta |-> dist.beta,
          lambda |-> dist.lambda, m |-> dist.m, x |-> x]

\* exactVPI without the test of alpha
exactVPI_noGuard(isBestAction, bestVal1, bestVal2, dist) ==
    LET marginal == meanMarginal(dist)
    IN  IF isBestAction
        THEN [value |-> "bias + gap * cdf", bias |-> truncationBias(dist, bestVal2),
              gap |-> RSub(bestVal2, dist.m),
              cdf |-> [fn |-> "cdf", of |-> marginal, at |-> bestVal2],
              asserted |-> "result >= 0"]
        ELSE [value |-> "bias + gap * cdf", bias |-> truncationBias(dist, bestVal1),
              gap |-> RSub(dist.m, bestVal1),
              cdf |-> [fn |-> "cdf complement", of |-> marginal, at |-> bestVal1],
              asserted |-> "result >= 0"]

\* exactVPI(isBestAction, bestVal1, bestVal2, dist): infinity below alpha = 0.5,
\* else the closed form, returned past assert(result>=0)
exactVPI(isBestAction, bestVal1, bestVal2, dist) ==
    IF RLess(dist.alpha, Half) THEN Infinity
    ELSE LET marginal == meanMarginal(dist)
         IN  IF isBestAction
             THEN [value |-> "bias + gap * cdf",
                   bias |-> truncationBias(dist, bestVal2),
                   gap |-> RSub(bestVal2, dist.m),
                   cdf |-> [fn |-> "cdf", of |-> marginal, at |-> bestVal2],
                   asserted |-> "result >= 0"]
             ELSE [value |-> "bias + gap * cdf",
                   bias |-> truncationBias(dist, bestVal1),
                   gap |-> RSub(dist.m, bestVal1),
                   cdf |-> [fn |-> "cdf complement", of |-> marginal, at |-> bestVal1],
                   asserted |-> "result >= 0"]

\* expGain after the loop of sampledVPI has run k times on the values the
\* sampler returns, in order
RECURSIVE gainLoop(_, _, _, _, _)
gainLoop(isBestAction, bestVal1, bestVal2, samples, k) ==
    IF k <= 0 THEN Zero
    ELSE LET expGain      == gainLoop(isBestAction, bestVal1, bestVal2, samples, k - 1)
             sampledValue == samples[k]
         IN  IF isBestAction
             THEN IF RLess(sampledValue, bestVal2)
                  THEN RAdd(expGain, RSub(bestVal2, sampledValue))
                  ELSE expGain
             ELSE IF RLess(bestVal1, sampledValue)
                  THEN RAdd(expGain, RSub(sampledValue, bestVal1))
                  ELSE expGain

\* sampledVPI(isBestAction, bestVal1, bestVal2, valDist, noSamples), valDist
\* returning samples[1], samples[2], ...: the number of values drawn, expGain
\* after expGain /= noSamples, and whether assert(expGain>=0) holds of it
sampledVPI(isBestAction, bestVal1, bestVal2, samples, noSamples) ==
    LET expGain == RDiv(gainLoop(isBestAction, bestVal1, bestVal2, samples, noSamples),
                        R(noSamples, 1))
    IN  [drawn    |-> IF noSamples > 0 THEN noSamples ELSE 0,
         result   |-> expGain,
         asserted |-> RLeq(Zero, expGain)]

(***************************************************************************)
(* DecBayesModelLearner.  A learner L has the fields rewardBeliefs         *)
(* (factor id -> vectorised NormalGamma), actionSet (a list of variable    *)
(* ids), isInitialised and gamma.                                          *)
(***************************************************************************)
\* the keys of a std::map in iteration order
Keys(map) == SortedSeq(DOMAIN map)

DefaultBelief == NormalGamma(DEFAULT_ALPHA, DEFAULT_BETA, DEFAULT_LAMBDA, DEFAULT_M)

\* addFactor(factor, varBegin, varEnd): rewardBeliefs_i[factor] is the belief
\* already stored for factor or else a new default one without variables; its
\* four tables are expanded by vs
addFactor(L, factor, vs) ==
    LET dist == IF factor \in DOMAIN L.rewardBeliefs THEN L.rewardBeliefs[factor]
                ELSE Replicate(DefaultBelief, <<>>)
    IN  [L EXCEPT !.rewardBeliefs = Put(@, factor, expand(dist, vs))]

\* the assertions 0==dist.alpha.noVars() ... of addFactor hold
addFactorAsserts(L, factor) ==
    \/ factor \notin DOMAIN L.rewardBeliefs
    \/ \A h \in {"alpha", "beta", "lambda", "m"} : L.rewardBeliefs[factor][h].vars = <<>>

\* std::set_difference of two ascending lists
RECURSIVE set_difference(_, _)
set_difference(a, b) ==
    IF a = <<>> THEN <<>>
    ELSE IF b = <<>> THEN a
    ELSE IF Head(a) < Head(b) THEN <<Head(a)>> \o set_difference(Tail(a), b)
    ELSE IF Head(b) < Head(a) THEN set_difference(a, Tail(b))
    ELSE set_difference(Tail(a), Tail(b))

\* the std::set of all variables of all factors, built factor by factor
RECURSIVE AllVars(_, _)
AllVars(beliefs, ids) ==
    IF ids = <<>> THEN {}
    ELSE Range(beliefs[Head(ids)].alpha.vars) \cup AllVars(beliefs, Tail(ids))

\* setStates without the test of isInitialised_i
setStates_noGuard(L, states) ==
    LET allVars == SortedSeq(AllVars(L.rewardBeliefs, Keys(L.rewardBeliefs)))
    IN  [L EXCEPT !.actionSet = set_difference(allVars, states) \o @,
                  !.isInitialised = TRUE]

\* setStates inserting each action variable at the front of the list
setStates_frontInsert(L, states) ==
    LET allVars == SortedSeq(AllVars(L.rewardBeliefs, Keys(L.rewardBeliefs)))
        diff    == set_difference(allVars, states)
        rev     == [i \in DOMAIN diff |-> diff[Len(diff) + 1 - i]]
    IN  IF L.isInitialised THEN L
        ELSE [L EXCEPT !.actionSet = rev \o @, !.isInitialised = TRUE]

\* setStates(stateBegin, stateEnd), states an ascending list of variable ids
setStates(L, states) ==
    IF L.isInitialised THEN L
    ELSE LET allVars == SortedSeq(AllVars(L.rewardBeliefs, Keys(L.rewardBeliefs)))
         IN  [L EXCEPT !.actionSet = set_difference(allVars, states) \o @,
                       !.isInitialised = TRUE]

\* the first lines of act and actGreedy: initialise from the keys of the state map
initialiseFrom(L, states) ==
    IF ~L.isInitialised THEN setStates(L, Keys(states)) ELSE L

\* for each factor: condition m on the states and hand it over with setFactor
RECURSIVE setConditionedFactors(_, _, _, _)
setConditionedFactors(w, beliefs, ids, states) ==
    IF ids = <<>> THEN w
    ELSE setConditionedFactors(
             msSetFactor(w, Head(ids), condition(beliefs[Head(ids)].m, states)),
             beliefs, Tail(ids), states)

\* for each factor: write m conditioned on the states under the bonuses the
\* handle already holds, notify
RECURSIVE writeConditionedFactors_keepBonus(_, _, _, _)
writeConditionedFactors_keepBonus(w, beliefs, ids, states) ==
    IF ids = <<>> THEN w
    ELSE LET f   == Head(ids)
             w1  == msAssignThroughHandle(w, f, condition(beliefs[f].m, states))
             old == IF f \in DOMAIN w.ms.factors THEN w.ms.factors[f].bonus ELSE <<>>
             w2  == [w1 EXCEPT !.ms.factors[f].bonus = old]
         IN  writeConditionedFactors_keepBonus(msNotifyFactor(w2, f),
                                               beliefs, Tail(ids), states)

\* for each factor: condition m on the states into the writable handle, notify
RECURSIVE writeConditionedFactors(_, _, _, _)
writeConditionedFactors(w, beliefs, ids, states) ==
    IF ids = <<>> THEN w
    ELSE writeConditionedFactors(
             msNotifyFactor(
                 msAssignThroughHandle(w, Head(ids),
                                       condition(beliefs[Head(ids)].m, states)),
                 Head(ids)),
             beliefs, Tail(ids), states)

\* the belief over the total local value of one factor, and its VPI
totValDist(w, valDist, factor, states) ==
    [m      |-> w.ms.totals[factor],
     alpha  |-> condition(valDist.alpha, states),
     beta   |-> condition(valDist.beta, states),
     lambda |-> condition(valDist.lambda, states)]

\* for each factor: total value, conditioned belief, VPI, add it in place, notify
RECURSIVE addVPI(_, _, _, _)
addVPI(w, beliefs, ids, states) ==
    IF ids = <<>> THEN w
    ELSE LET factor   == Head(ids)
             w1       == msGetTotalValue(w, factor)
             localVPI == exactVPIVec(totValDist(w1, beliefs[factor], factor, states))
             w2       == msAddThroughHandle(w1, factor, localVPI)
         IN  addVPI(msNotifyFactor(w2, factor), beliefs, Tail(ids), states)

\* actGreedy up to its call of optimise
greedyPrepared(L, ms, states) ==
    LET L1 == initialiseFrom(L, states)
    IN  [L |-> L1,
         w |-> setConditionedFactors([ms |-> ms, trace |-> <<>>], L1.rewardBeliefs,
                                     Keys(L1.rewardBeliefs), states)]

\* actGreedy adding the VPI bonuses of act after its pass
actGreedy_withBonus(L, ms, states, n, a) ==
    LET p  == greedyPrepared(L, ms, states)
        w1 == msOptimise(p.w, n, a)
        w2 == addVPI(w1, p.L.rewardBeliefs, Keys(p.L.rewardBeliefs), states)
    IN  [L |-> p.L, w |-> w2, actions |-> w2.ms.values, ret |-> n]

\* actGreedy(states, actions); optimise takes n iterations and ends in a
actGreedy(L, ms, states, n, a) ==
    LET p  == greedyPrepared(L, ms, states)
        w1 == msOptimise(p.w, n, a)
    IN  [L |-> p.L, w |-> w1, actions |-> w1.ms.values, ret |-> n]

\* act up to its first call of optimise
actPrepared(L, ms, states) ==
    LET L1 == initialiseFrom(L, states)
        w0 == [ms |-> ms, trace |-> <<>>]
    IN  [L |-> L1,
         w |-> IF ~L.isInitialised
               THEN setConditionedFactors(w0, L1.rewardBeliefs,
                                          Keys(L1.rewardBeliefs), states)
               ELSE writeConditionedFactors(w0, L1.rewardBeliefs,
                                            Keys(L1.rewardBeliefs), states)]

\* act returning the iteration count of the second pass only
act_lastCount(L, ms, states, n1, a1, n2, a2) ==
    LET p  == actPrepared(L, ms, states)
        w1 == msOptimise(p.w, n1, a1)
        w2 == addVPI(w1, p.L.rewardBeliefs, Keys(p.L.rewardBeliefs), states)
        w3 == msOptimise(w2, n2, a2)
    IN  [L |-> p.L, w |-> w3, actions |-> w3.ms.values, ret |-> n2]

\* act adding the VPI bonuses only after its second pass
act_lateBonus(L, ms, states, n1, a1, n2, a2) ==
    LET p  == actPrepared(L, ms, states)
        w1 == msOptimise(p.w, n1, a1)
        w2 == msOptimise(w1, n2, a2)
        w3 == addVPI(w2, p.L.rewardBeliefs, Keys(p.L.rewardBeliefs), states)
    IN  [L |-> p.L, w |-> w3, actions |-> w2.ms.values, ret |-> n1 + n2]

\* act(states, actions); the passes take n1 and n2 iterations and end in a1 and a2
act(L, ms, states, n1, a1, n2, a2) ==
    LET p  == actPrepared(L, ms, states)
        w1 == msOptimise(p.w, n1, a1)
        w2 == addVPI(w1, p.L.rewardBeliefs, Keys(p.L.rewardBeliefs), states)
        w3 == msOptimise(w2, n2, a2)
    IN  [L |-> p.L, w |-> w3, actions |-> w3.ms.values, ret |-> n1 + n2]

\* std::map::insert of a range: keys already present keep their value
InsertAll(map, more) == map @@ more

\* the divisor nxtAlpha - 1 of expSigma2 in the reward loop of observe: it is
\* evaluated for every registered factor, whatever nxtAlpha is
sigma2Divisor(dist, postIndex) == RSub(dist.alpha.vals[postIndex], One)

\* the body of the reward loop of observe for one registered factor: the
\* moments expQ and expQ2 of the bootstrapped target from the belief at
\* postVars, then observe(dist, priorVars, expQ, expQ2, 1).  That statement
\* hands the map priorVars to the one overload of observe that takes five
\* arguments; that overload has an empty body, so no index is formed from
\* priorVars and nothing is stored.
rewardUpdate(dist, priorVars, postVars, r, gamma) ==
    LET postIndex == sub2ind(dist.alpha.vars, postVars)
        nxtBeta   == dist.beta.vals[postIndex]
        nxtLambda == dist.lambda.vals[postIndex]
        nxtM      == dist.m.vals[postIndex]
        expSigma2 == RDiv(nxtBeta, sigma2Divisor(dist, postIndex))
        expR2     == RAdd(RMul(nxtM, nxtM),
                          RMul(RAdd(One, RDiv(One, nxtLambda)), expSigma2))
        expQ      == RAdd(r, RMul(gamma, nxtM))
        expQ2     == RAdd(RAdd(RMul(r, r), RMul(RMul(RMul(Two, gamma), r), nxtM)),
                          RMul(RMul(gamma, gamma), expR2))
    IN  observeMomentsAt(dist, priorVars, expQ, expQ2, 1)

\* the reward loop creating a belief for an id it does not find
RECURSIVE rewardLoop_insertUnknown(_, _, _, _, _, _)
rewardLoop_insertUnknown(acc, ids, rewards, priorVars, postVars, gamma) ==
    IF ids = <<>> THEN acc
    ELSE LET f    == Head(ids)
             dist == IF f \in DOMAIN acc.beliefs THEN acc.beliefs[f]
                     ELSE Replicate(DefaultBelief, <<>>)
         IN  rewardLoop_insertUnknown(
                 [beliefs |-> Put(acc.beliefs, f, dist),
                  updated |-> Append(acc.updated, f),
                  post    |-> Append(acc.post, sub2ind(dist.alpha.vars, postVars)),
                  divisor |-> Append(acc.divisor,
                                     sigma2Divisor(dist, sub2ind(dist.alpha.vars,
                                                                 postVars)))],
                 Tail(ids), rewards, priorVars, postVars, gamma)

\* the reward loop of observe over the reward entries ids, in the order of the
\* map: unregistered factor ids are skipped.  acc.beliefs is the belief store,
\* acc.updated lists the factors whose update has been called so far,
\* acc.post the linear index at which each of them read its next belief and
\* acc.divisor the nxtAlpha - 1 it divided nxtBeta by.
RECURSIVE rewardLoop(_, _, _, _, _, _)
rewardLoop(acc, ids, rewards, priorVars, postVars, gamma) ==
    IF ids = <<>> THEN acc
    ELSE IF Head(ids) \notin DOMAIN acc.beliefs
         THEN rewardLoop(acc, Tail(ids), rewards, priorVars, postVars, gamma)
    ELSE LET dist == acc.beliefs[Head(ids)]
             upd  == rewardUpdate(dist, priorVars, postVars, rewards[Head(ids)], gamma)
         IN  rewardLoop([beliefs |-> [acc.beliefs EXCEPT ![Head(ids)] = upd],
                         updated |-> Append(acc.updated, Head(ids)),
                         post    |-> Append(acc.post,
                                            sub2ind(dist.alpha.vars, postVars)),
                         divisor |-> Append(acc.divisor,
                                            sigma2Divisor(dist,
                                                sub2ind(dist.alpha.vars, postVars)))],
                        Tail(ids), rewards, priorVars, postVars, gamma)

\* observe choosing the next actions with the VPI bonuses added
observeLearner_withBonus(L, ms, priorStates, actions, postStates, rewards, n, a) ==
    LET priorVars == InsertAll(priorStates, actions)
        after(g, postVars, loop) ==
            [L |-> [g.L EXCEPT !.rewardBeliefs = loop.beliefs],
             w |-> g.w, priorVars |-> priorVars, postVars |-> postVars,
             updated |-> loop.updated, post |-> loop.post, divisor |-> loop.divisor]
        rewarded(g, postVars) ==
            after(g, postVars,
                  rewardLoop([beliefs |-> g.L.rewardBeliefs, updated |-> <<>>,
                              post |-> <<>>, divisor |-> <<>>],
                             Keys(rewards), rewards, priorVars, postVars, L.gamma))
        chosen(g) == rewarded(g, InsertAll(g.actions, postStates))
    IN  chosen(actGreedy_withBonus(L, ms, postStates, n, a))

\* observe(priorStates, actions, postStates, rewards); the optimise call of the
\* inner actGreedy takes n iterations and ends in a
observeLearner(L, ms, priorStates, actions, postStates, rewards, n, a) ==
    LET priorVars == InsertAll(priorStates, actions)
        after(g, postVars, loop) ==
            [L |-> [g.L EXCEPT !.rewardBeliefs = loop.beliefs],
             w |-> g.w, priorVars |-> priorVars, postVars |-> postVars,
             updated |-> loop.updated, post |-> loop.post, divisor |-> loop.divisor]
        rewarded(g, postVars) ==
            after(g, postVars,
                  rewardLoop([beliefs |-> g.L.rewardBeliefs, updated |-> <<>>,
                              post |-> <<>>, divisor |-> <<>>],
                             Keys(rewards), rewards, priorVars, postVars, L.gamma))
        chosen(g) == rewarded(g, InsertAll(g.actions, postStates))
    IN  chosen(actGreedy(L, ms, postStates, n, a))

(***************************************************************************)
(* DecBayesQ.  Its addFactor, setStates and actGreedy are those of         *)
(* DecBayesModelLearner, with the Q-value beliefs qBeliefs_i in the place  *)
(* of rewardBeliefs_i (field rewardBeliefs of L).                          *)
(***************************************************************************)
\* DecBayesQ::act(states, actions): actGreedy, then a second optimise that
\* takes n2 iterations and ends in a2
actQ(L, ms, states, n1, a1, n2, a2) ==
    LET g  == actGreedy(L, ms, states, n1, a1)
        w2 == msOptimise(g.w, n2, a2)
    IN  [L |-> g.L, w |-> w2, actions |-> w2.ms.values, ret |-> n1 + n2]

\* the reward loop of DecBayesQ::observe: it finds the belief of each rewarded
\* factor, skips the ids it does not find, and updates nothing
RECURSIVE qLoop(_, _)
qLoop(acc, ids) ==
    IF ids = <<>> THEN acc
    ELSE IF Head(ids) \notin DOMAIN acc.beliefs THEN qLoop(acc, Tail(ids))
    ELSE qLoop([beliefs |-> acc.beliefs, found |-> Append(acc.found, Head(ids))],
               Tail(ids))

\* DecBayesQ::observe(priorStates, actions, postStates, rewards)
observeQ(L, ms, priorStates, actions, postStates, rewards, n, a) ==
    LET priorVars == InsertAll(priorStates, actions)
        g         == actGreedy(L, ms, postStates, n, a)
        postVars  == InsertAll(g.actions, postStates)
        loop      == qLoop([beliefs |-> g.L.rewardBeliefs, found |-> <<>>],
                           Keys(rewards))
    IN  [L |-> [g.L EXCEPT !.rewardBeliefs = loop.beliefs],
         w |-> g.w, priorVars |-> priorVars, postVars |-> postVars,
         found |-> loop.found]

(***************************************************************************)
(* State                                                                   *)
(***************************************************************************)
VARIABLES
    prior,      \* the hyperparameters every belief below was constructed with
    scalar,     \* a scalar belief (NormalGamma_Tmpl<double>)
    vec,        \* a vectorised belief (NormalGamma_Tmpl<DiscreteFunction>)
    single,     \* a scalar copy of the prior, updated once from the sample's moments
    vsingle,    \* a vectorised copy of the prior, updated once from a sample's moments
    hist,       \* the observations passed to observe(scalar, x), in order
    vhist,      \* per linear index, the observations applied to vec there, in order
    call,       \* the last call made and its arguments
    pre,        \* scalar, vec, single and vsingle as they were before that call
    ncalls      \* number of calls made so far

VARIABLES
    learner,    \* the DecBayesModelLearner: rewardBeliefs, actionSet, isInitialised, gamma
    maxsum,     \* its MaxSumController
    trace,      \* the controller calls made by the last learner call, in order
    lcall,      \* the last learner call, its arguments and what it returned
    initInfo,   \* the state variables and factor variables seen when initialising
    lcalls      \* number of learner calls made so far

ngVars == <<prior, scalar, vec, single, vsingle, hist, vhist, call, pre, ncalls>>

learnerVars == <<learner, maxsum, trace, lcall, initInfo, lcalls>>

VARIABLES
    objects,    \* the learner objects alive, by name: members held by value, and
                \* the addresses of the storage their containers own
    heap,       \* allocated storage: address -> contents
    ccall,      \* the last call made on a learner object or between two of them
                \* (field after: the call made before it)
    ccalls      \* number of such calls made so far

cloneVars == <<objects, heap, ccall, ccalls>>

vars == <<ngVars, learnerVars, cloneVars>>

(***************************************************************************)
(* Inputs                                                                  *)
(***************************************************************************)
\* hyperparameters a belief may be constructed with: the defaults of the
\* constructor, and NormalGamma(0.5, 0.5, 3.0, 0.1)
Priors == { NormalGamma(DEFAULT_ALPHA, DEFAULT_BETA, DEFAULT_LAMBDA, DEFAULT_M),
            NormalGamma(Half, Half, R(3, 1), Dec(1, 1)) }

\* observations x
Observations == { Half, Two }

\* sufficient statistics <<sample mean, sum of squares, n>>
MomentInputs == { <<One, Zero, 1>>, <<Half, R(-3, 1), 2>> }

\* variables of the vectorised belief
VecVars == <<1>>
VecIndices == 0 .. domainSize(VecVars) - 1

\* the element that receives the indexed updates: domainSize()/2
vecIndex == domainSize(VecVars) \div 2

\* discount factors a learner may be constructed with
Gammas == { R(19, 20) }

NoCall == [op |-> "none"]

\* the sum of a sample, accumulated from 0.0 in the order of the sample
RECURSIVE SeqSum(_)
SeqSum(xs) ==
    IF xs = <<>> THEN Zero
    ELSE RAdd(SeqSum(SubSeq(xs, 1, Len(xs) - 1)), xs[Len(xs)])

\* mu /= SAMPLE_SIZE
SampleMean(xs) == RDiv(SeqSum(xs), R(Len(xs), 1))

\* s += x*x for x = xs[it] - mu, accumulated from 0.0 in the order of the sample
RECURSIVE SumSqDev(_, _)
SumSqDev(xs, mu) ==
    IF xs = <<>> THEN Zero
    ELSE LET x == RSub(xs[Len(xs)], mu)
         IN  RAdd(SumSqDev(SubSeq(xs, 1, Len(xs) - 1), mu), RMul(x, x))

\* the observations of a list of updates, in order
Values(us) == [i \in 1 .. Len(us) |-> us[i].x]

\* a learner as its constructor leaves it
NewLearner(g) == [rewardBeliefs |-> EmptyMap, actionSet |-> <<>>,
                  isInitialised |-> FALSE, gamma |-> g]

\* a learner object as its constructor leaves it: the belief map's nodes at
\* address b, the controller's state at address c
NewObject(g, b, c) == [gamma |-> g, actionSet |-> <<>>, isInitialised |-> FALSE,
                       beliefs |-> b, controller |-> c]

\* one learner, just constructed
OneObject(g) ==
    /\ objects = ("source" :> NewObject(g, 1, 2))
    /\ heap = (1 :> EmptyMap) @@ (2 :> NewController)
    /\ ccall = NoCall
    /\ ccalls = 0

LearnerIdle ==
    /\ OneObject(R(19, 20))
    /\ learner = NewLearner(R(19, 20))
    /\ maxsum = NewController
    /\ trace = <<>>
    /\ lcall = NoCall
    /\ initInfo = NoCall
    /\ lcalls = 0

InitNG ==
    /\ LearnerIdle
    /\ prior \in Priors
    /\ scalar = prior
    /\ vec = Replicate(prior, VecVars)
    /\ single = prior
    /\ vsingle = Replicate(prior, VecVars)
    /\ hist = <<>>
    /\ vhist = [k \in VecIndices |-> <<>>]
    /\ call = NoCall
    /\ pre = [scalar |-> prior, vec |-> Replicate(prior, VecVars),
              single |-> prior, vsingle |-> Replicate(prior, VecVars)]
    /\ ncalls = 0

(***************************************************************************)
(* Calls on beliefs                                                        *)
(***************************************************************************)
Step(c) ==
    /\ UNCHANGED <<learnerVars, cloneVars>>
    /\ call.op # "aborted"
    /\ ncalls < MaxCalls
    /\ ncalls' = ncalls + 1
    /\ call' = c
    /\ pre' = [scalar |-> scalar, vec |-> vec, single |-> single,
               vsingle |-> vsingle]

\* observe(scalar, x)
ObserveScalar ==
    \E x \in Observations :
        /\ Step([op |-> "observe", x |-> x])
        /\ scalar' = observe(scalar, x)
        /\ hist' = Append(hist, x)
        /\ UNCHANGED <<prior, vec, single, vsingle, vhist>>

\* observe(vec, x)
ObserveVector ==
    \E x \in Observations :
        /\ Step([op |-> "observeVec", x |-> x])
        /\ vec' = observeVec(vec, x)
        /\ vhist' = [k \in VecIndices |-> Append(vhist[k], [x |-> x, whole |-> TRUE])]
        /\ UNCHANGED <<prior, scalar, single, vsingle, hist>>

\* observe(vec, index, x)
ObserveIndexed ==
    \E j \in VecIndices, x \in Observations :
        /\ Step([op |-> "observeAt", index |-> j, x |-> x])
        /\ vec' = observeAt(vec, j, x)
        /\ vhist' = [vhist EXCEPT ![j] = Append(@, [x |-> x, whole |-> FALSE])]
        /\ UNCHANGED <<prior, scalar, single, vsingle, hist>>

\* observe(scalar, sm, s2, n)
ObserveMomentsScalar ==
    \E s \in MomentInputs :
        /\ Step([op |-> "observeMoments", sm |-> s[1], s2 |-> s[2], n |-> s[3]])
        /\ scalar' = observeMoments(scalar, s[1], s[2], s[3])
        /\ UNCHANGED <<prior, vec, single, vsingle, hist, vhist>>

\* observe(vec, sm, s2, n)
ObserveMomentsVector ==
    \E s \in MomentInputs :
        /\ Step([op |-> "observeMomentsVec", sm |-> s[1], s2 |-> s[2], n |-> s[3]])
        /\ vec' = observeMomentsVec(vec, s[1], s[2], s[3])
        /\ UNCHANGED <<prior, scalar, single, vsingle, hist, vhist>>

\* observe(vec, index, sm, s2, n)
ObserveMomentsIndexed ==
    \E j \in VecIndices, s \in MomentInputs :
        /\ Step([op |-> "observeMomentsAt", index |-> j,
                 sm |-> s[1], s2 |-> s[2], n |-> s[3]])
        /\ vec' = observeMomentsAt(vec, j, s[1], s[2], s[3])
        /\ UNCHANGED <<prior, scalar, single, vsingle, hist, vhist>>

\* observe(scalarSingleUpdate1, mu1, s1, SAMPLE_SIZE) of tests/vecHarness.cpp:
\* the moment update of the sample observed so far, applied to a belief that
\* is as it was constructed
MomentUpdateOfSample ==
    /\ hist # <<>>
    /\ single = prior
    /\ LET mu1 == SampleMean(hist)
           s1  == SumSqDev(hist, mu1)
       IN  /\ Step([op |-> "sampleMoments", sm |-> mu1, s2 |-> s1, n |-> Len(hist)])
           /\ single' = observeMoments(single, mu1, s1, Len(hist))
    /\ UNCHANGED <<prior, scalar, vec, vsingle, hist, vhist>>

\* observe(vecSingleUpdate, mu1, s1, SAMPLE_SIZE) and then
\* observe(vecSingleUpdate, vecIndex, mu2, s2, SAMPLE_SIZE) of
\* tests/vecHarness.cpp: mu1, s1 are the statistics of the whole-domain
\* observations and mu2, s2 those of the observations applied to vecIndex
\* alone, as many of the one as of the other
MomentUpdateOfSampleAt ==
    LET allObs1 == Values(SelectSeq(vhist[vecIndex], LAMBDA u : u.whole))
        allObs2 == Values(SelectSeq(vhist[vecIndex], LAMBDA u : ~u.whole))
        mu1 == SampleMean(allObs1)
        s1  == SumSqDev(allObs1, mu1)
        mu2 == SampleMean(allObs2)
        s2  == SumSqDev(allObs2, mu2)
        n   == Len(allObs1)
    IN  /\ allObs1 # <<>>
        /\ Len(allObs2) = n
        /\ \A k \in VecIndices \ {vecIndex} : Len(vhist[k]) = n
        /\ vsingle = Replicate(prior, VecVars)
        /\ Step([op |-> "sampleMomentsAt", index |-> vecIndex, sm1 |-> mu1, s1 |-> s1,
                 sm |-> mu2, s2 |-> s2, n |-> n])
        /\ vsingle' = observeMomentsAt(observeMomentsVec(vsingle, mu1, s1, n),
                                       vecIndex, mu2, s2, n)
        /\ UNCHANGED <<prior, scalar, vec, single, hist, vhist>>

NextNG ==
    \/ ObserveScalar
    \/ ObserveVector
    \/ ObserveIndexed
    \/ ObserveMomentsScalar
    \/ ObserveMomentsVector
    \/ ObserveMomentsIndexed
    \/ MomentUpdateOfSample
    \/ MomentUpdateOfSampleAt

SpecNG == InitNG /\ [][NextNG]_vars

(***************************************************************************)
(* Calls of the VPI functions on a scalar belief that is being updated.    *)
(* The functions are public: a client may call each of them on any belief  *)
(* it has constructed, whenever it likes.                                  *)
(***************************************************************************)
\* the beliefs the calls start from: NormalGamma paramDist; as vpiHarness
\* constructs it (alpha = 1e-8; its first observe gives alpha = 0.50000001),
\* NormalGamma(0.5, 0.5, 1.0, 0.0) and NormalGamma(1.0, 2.0, 0.5, -1.0)
VPIBeliefs == { NormalGamma(DEFAULT_ALPHA, DEFAULT_BETA, DEFAULT_LAMBDA, DEFAULT_M),
                NormalGamma(Half, Half, One, Zero),
                NormalGamma(One, Two, Half, R(-1, 1)) }

\* values of the best and second best action
BestVals == { R(-1, 1), R(0, 1), R(3, 2) }

InitVPI ==
    /\ prior \in VPIBeliefs
    /\ scalar = prior
    /\ vec = Replicate(prior, VecVars)
    /\ single = prior
    /\ vsingle = Replicate(prior, VecVars)
    /\ hist = <<>>
    /\ vhist = [k \in VecIndices |-> <<>>]
    /\ call = NoCall
    /\ pre = [scalar |-> prior, vec |-> Replicate(prior, VecVars),
              single |-> prior, vsingle |-> Replicate(prior, VecVars)]
    /\ ncalls = 0
    /\ LearnerIdle

\* truncationBias(scalar, x)
TruncationBias ==
    \E x \in BestVals :
        /\ Step([op |-> "truncationBias", x |-> x,
                 result |-> truncationBias(scalar, x)])
        /\ UNCHANGED <<prior, scalar, vec, single, vsingle, hist, vhist>>

\* exactVPI(isBestAction, bestVal1, bestVal2, scalar) returns: at once below
\* alpha = 0.5, else past its assertion
ExactVPI ==
    \E isBestAction \in BOOLEAN, bestVal1, bestVal2 \in BestVals :
        /\ Step([op |-> "exactVPI", isBestAction |-> isBestAction,
                 bestVal1 |-> bestVal1, bestVal2 |-> bestVal2,
                 result |-> exactVPI(isBestAction, bestVal1, bestVal2, scalar)])
        /\ UNCHANGED <<prior, scalar, vec, single, vsingle, hist, vhist>>

\* exactVPI ends the program at assert(result>=0).  The doubles that lgamma,
\* log1p, exp and cdf return are not computed here, so neither outcome of the
\* assertion is excluded for a belief that reaches it.
ExactVPIAborts ==
    \E isBestAction \in BOOLEAN, bestVal1, bestVal2 \in BestVals :
        /\ exactVPI(isBestAction, bestVal1, bestVal2, scalar) # Infinity
        /\ Step([op |-> "aborted", in |-> "exactVPI", isBestAction |-> isBestAction,
                 bestVal1 |-> bestVal1, bestVal2 |-> bestVal2,
                 asserted |-> exactVPI(isBestAction, bestVal1, bestVal2, scalar).asserted])
        /\ UNCHANGED <<prior, scalar, vec, single, vsingle, hist, vhist>>

\* meanMarginal(scalar).hasVariance()
HasVariance ==
    /\ Step([op |-> "hasVariance", result |-> hasVariance(meanMarginal(scalar))])
    /\ UNCHANGED <<prior, scalar, vec, single, vsingle, hist, vhist>>

\* variance(meanMarginal(scalar)) returns: at once below two degrees of freedom,
\* else past its assertion
Variance ==
    /\ Step([op |-> "variance", result |-> variance(meanMarginal(scalar))])
    /\ UNCHANGED <<prior, scalar, vec, single, vsingle, hist, vhist>>

\* variance ends the program at assert(result>0); the double that Boost.Math
\* returns for the base distribution is not computed here
VarianceAborts ==
    /\ variance(meanMarginal(scalar)) # Infinity
    /\ Step([op |-> "aborted", in |-> "variance",
             asserted |-> variance(meanMarginal(scalar)).asserted])
    /\ UNCHANGED <<prior, scalar, vec, single, vsingle, hist, vhist>>

\* standard_deviation(meanMarginal(scalar)) returns: at once below two degrees
\* of freedom, else past its assertion.  The function makes no call of
\* hasVariance; a caller that wants the guard makes that call first.
StandardDeviation ==
    /\ Step([op |-> "standard_deviation",
             result |-> standard_deviation(meanMarginal(scalar))])
    /\ UNCHANGED <<prior, scalar, vec, single, vsingle, hist, vhist>>

\* standard_deviation ends the program at assert(result>0)
StandardDeviationAborts ==
    /\ standard_deviation(meanMarginal(scalar)) # Infinity
    /\ Step([op |-> "aborted", in |-> "standard_deviation",
             asserted |-> standard_deviation(meanMarginal(scalar)).asserted])
    /\ UNCHANGED <<prior, scalar, vec, single, vsingle, hist, vhist>>

NextVPI ==
    \/ ObserveScalar
    \/ TruncationBias
    \/ ExactVPI
    \/ ExactVPIAborts
    \/ HasVariance
    \/ Variance
    \/ VarianceAborts
    \/ StandardDeviation
    \/ StandardDeviationAborts

SpecVPI == InitVPI /\ [][NextVPI]_vars

(***************************************************************************)
(* One call of sampledVPI                                                  *)
(***************************************************************************)
\* values the sampler may return
SampleValues == { R(-1, 1), R(1, 2), R(2, 1) }

\* the values the sampler returns, in order
SampleStreams == [1 .. MaxSamples -> SampleValues]

\* numbers of samples asked for
SampleCounts == 0 .. MaxSamples

InitSampled ==
    /\ LearnerIdle
    /\ prior = NormalGamma(R(1, 2), R(1, 2), R(1, 1), R(0, 1))
    /\ scalar = prior
    /\ vec = Replicate(prior, VecVars)
    /\ single = prior
    /\ vsingle = Replicate(prior, VecVars)
    /\ hist = <<>>
    /\ vhist = [k \in VecIndices |-> <<>>]
    /\ pre = [scalar |-> prior, vec |-> Replicate(prior, VecVars),
              single |-> prior, vsingle |-> Replicate(prior, VecVars)]
    /\ ncalls = 0
    /\ \E isBestAction \in BOOLEAN, bestVal1 \in BestVals, bestVal2 \in BestVals,
          samples \in SampleStreams, noSamples \in SampleCounts :
           call = [op |-> "sampledVPI called", isBestAction |-> isBestAction,
                   bestVal1 |-> bestVal1, bestVal2 |-> bestVal2,
                   samples |-> samples, noSamples |-> noSamples]

\* sampledVPI returns expGain: its assertion holds, or the build has NDEBUG
SampledVPI ==
    /\ call.op = "sampledVPI called"
    /\ LET out == sampledVPI(call.isBestAction, call.bestVal1, call.bestVal2,
                             call.samples, call.noSamples)
       IN  call' = [op |-> "sampledVPI returned",
                    isBestAction |-> call.isBestAction,
                    bestVal1 |-> call.bestVal1, bestVal2 |-> call.bestVal2,
                    samples |-> call.samples, noSamples |-> call.noSamples,
                    drawn |-> out.drawn, result |-> out.result,
                    asserted |-> out.asserted]
    /\ ncalls' = ncalls + 1
    /\ UNCHANGED <<prior, scalar, vec, single, vsingle, hist, vhist, pre>>
    /\ UNCHANGED <<learnerVars, cloneVars>>

\* sampledVPI ends the program at assert(expGain>=0)
SampledVPIAborts ==
    /\ call.op = "sampledVPI called"
    /\ LET out == sampledVPI(call.isBestAction, call.bestVal1, call.bestVal2,
                             call.samples, call.noSamples)
       IN  /\ ~out.asserted
           /\ call' = [op |-> "aborted", in |-> "sampledVPI",
                        isBestAction |-> call.isBestAction,
                        bestVal1 |-> call.bestVal1, bestVal2 |-> call.bestVal2,
                        samples |-> call.samples, noSamples |-> call.noSamples,
                        drawn |-> out.drawn, expGain |-> out.result]
    /\ ncalls' = ncalls + 1
    /\ UNCHANGED <<prior, scalar, vec, single, vsingle, hist, vhist, pre>>
    /\ UNCHANGED <<learnerVars, cloneVars>>

NextSampled ==
    \/ SampledVPI
    \/ SampledVPIAborts

SpecSampled == InitSampled /\ [][NextSampled]_vars

(***************************************************************************)
(* Calls on the learner                                                    *)
(***************************************************************************)
\* <<factor, variable list>> handed to addFactor
AddFactorInputs == { <<1, <<1, 2>> >>, <<2, <<2, 3>> >>, <<2, <<>> >> }

\* state maps handed to act, actGreedy and observe
StateMaps == { (1 :> 1), (1 :> 0) @@ (3 :> 1) }

\* ascending state lists handed to setStates
StateLists == { <<1>>, <<1, 3>> }

\* <<priorStates, actions, postStates, rewards>> handed to observe; factor id 3
\* is never registered
ObserveInputs ==
    { << (1 :> 1), (2 :> 1) @@ (3 :> 0), (1 :> 0) @@ (3 :> 1), (1 :> R(1, 1)) >>,
      << (1 :> 0) @@ (3 :> 1), (2 :> 0), (1 :> 1),
         (1 :> R(-2, 1)) @@ (2 :> R(1, 1)) @@ (3 :> R(1, 1)) >> }

\* iteration counts an optimise call may report
Iterations == {1, 2}

NgIdle ==
    /\ prior = NormalGamma(R(1, 2), R(1, 2), R(1, 1), R(0, 1))
    /\ scalar = prior
    /\ vec = Replicate(prior, VecVars)
    /\ single = prior
    /\ vsingle = Replicate(prior, VecVars)
    /\ hist = <<>>
    /\ vhist = [k \in VecIndices |-> <<>>]
    /\ call = NoCall
    /\ pre = [scalar |-> prior, vec |-> Replicate(prior, VecVars),
              single |-> prior, vsingle |-> Replicate(prior, VecVars)]
    /\ ncalls = 0

Init ==
    /\ NgIdle
    /\ OneObject(R(19, 20))
    /\ \E g \in Gammas : learner = NewLearner(g)
    /\ maxsum = NewController
    /\ trace = <<>>
    /\ lcall = NoCall
    /\ initInfo = NoCall
    /\ lcalls = 0

\* what a handler that finds the learner uninitialised initialises it from
InitInfoAfter(stateKeys) ==
    IF learner.isInitialised THEN initInfo
    ELSE [op |-> "initialised", stateKeys |-> stateKeys,
          factorVars |-> UNION {Range(learner.rewardBeliefs[f].m.vars) :
                                   f \in DOMAIN learner.rewardBeliefs}]

\* the process has not been ended by a failed assertion
Running == lcall.op # "aborted"

LearnerStep ==
    /\ Running
    /\ UNCHANGED <<ngVars, cloneVars>>
    /\ lcalls < MaxLearnerCalls
    /\ lcalls' = lcalls + 1

\* addFactor(f, vs).  When the assertions fail, a build with assertions ends the
\* process there and a build without them (NDEBUG) goes on to expand the tables.
AddFactor ==
    \E in \in AddFactorInputs :
        LET f  == in[1]
            vs == in[2]
            args == [factor |-> f, vars |-> vs,
                     fresh |-> f \notin DOMAIN learner.rewardBeliefs]
        IN  /\ Running
            /\ trace' = <<>>
            /\ UNCHANGED <<ngVars, cloneVars, maxsum, initInfo, lcalls>>
            /\ \/ /\ learner' = addFactor(learner, f, vs)
                  /\ lcall' = [op |-> "addFactor"] @@ args
               \/ /\ ~addFactorAsserts(learner, f)
                  /\ learner' = learner
                  /\ lcall' = [op |-> "aborted"] @@ args

SetStates ==
    \E sl \in StateLists :
        /\ LearnerStep
        /\ learner' = setStates(learner, sl)
        /\ initInfo' = InitInfoAfter(Range(sl))
        /\ lcall' = [op |-> "setStates", states |-> sl]
        /\ trace' = <<>>
        /\ UNCHANGED maxsum

ActGreedy ==
    \E states \in StateMaps, n \in Iterations :
        \E a \in Assignments(GraphVars(greedyPrepared(learner, maxsum, states).w.ms)) :
            /\ LearnerStep
            /\ \E out \in { actGreedy(learner, maxsum, states, n, a) } :
                  /\ learner' = out.L
                  /\ maxsum' = out.w.ms
                  /\ trace' = out.w.trace
                  /\ initInfo' = InitInfoAfter(DOMAIN states)
                  /\ lcall' = [op |-> "actGreedy", states |-> states,
                               actions |-> out.actions, ret |-> out.ret]

Act ==
    \E states \in StateMaps, n1, n2 \in Iterations :
        \E a1, a2 \in Assignments(GraphVars(actPrepared(learner, maxsum, states).w.ms)) :
            /\ LearnerStep
            /\ \E out \in { act(learner, maxsum, states, n1, a1, n2, a2) } :
                  /\ learner' = out.L
                  /\ maxsum' = out.w.ms
                  /\ trace' = out.w.trace
                  /\ initInfo' = InitInfoAfter(DOMAIN states)
                  /\ lcall' = [op |-> "act", states |-> states,
                               actions |-> out.actions, ret |-> out.ret]

Observe ==
    \E in \in ObserveInputs, n \in Iterations :
        \E a \in Assignments(GraphVars(greedyPrepared(learner, maxsum, in[3]).w.ms)) :
            /\ LearnerStep
            /\ \E out \in { observeLearner(learner, maxsum, in[1], in[2], in[3], in[4],
                                            n, a) } :
                  /\ learner' = out.L
                  /\ maxsum' = out.w.ms
                  /\ trace' = out.w.trace
                  /\ initInfo' = InitInfoAfter(DOMAIN in[3])
                  /\ lcall' = [op |-> "observe", priorStates |-> in[1],
                               actions |-> in[2], postStates |-> in[3],
                               rewards |-> in[4], priorVars |-> out.priorVars,
                               postVars |-> out.postVars, updated |-> out.updated,
                               postIndices |-> out.post, divisors |-> out.divisor]

Next ==
    \/ AddFactor
    \/ SetStates
    \/ ActGreedy
    \/ Act
    \/ Observe

Spec == Init /\ [][Next]_vars

(***************************************************************************)
(* Calls on beliefs, or calls on a learner.  The beliefs of the harness    *)
(* and the learner are different objects and no call writes both, so a run *)
(* that mixes the two kinds of call passes only through states whose       *)
(* beliefs occur in a run of the first kind and whose learner occurs in a  *)
(* run of the second; the runs below make calls of one kind.               *)
(***************************************************************************)
NextBeliefs ==
    \/ lcall = NoCall /\ ObserveScalar
    \/ lcall = NoCall /\ ObserveVector
    \/ lcall = NoCall /\ ObserveIndexed
    \/ lcall = NoCall /\ ObserveMomentsScalar
    \/ lcall = NoCall /\ ObserveMomentsVector
    \/ lcall = NoCall /\ ObserveMomentsIndexed
    \/ lcall = NoCall /\ MomentUpdateOfSample
    \/ lcall = NoCall /\ MomentUpdateOfSampleAt
    \/ call = NoCall /\ AddFactor
    \/ call = NoCall /\ SetStates
    \/ call = NoCall /\ ActGreedy
    \/ call = NoCall /\ Act
    \/ call = NoCall /\ Observe

SpecBeliefs == InitNG /\ [][NextBeliefs]_vars

(***************************************************************************)
(* Copies of a learner                                                     *)
(***************************************************************************)
\* the learner an object denotes: members held by value, containers read from
\* the storage they own
learnerOf(H, o) == [rewardBeliefs |-> H[o.beliefs], actionSet |-> o.actionSet,
                    isInitialised |-> o.isInitialised, gamma |-> o.gamma]

controllerOf(H, o) == H[o.controller]

\* what the copy constructor and operator= of maxsum::MaxSumController and of
\* maxsum::DiscreteFunction (the tables of a belief) leave in the object
\* written: a copy by value, which shares nothing with the object read
maxsumCopy(contents) == contents

\* a copy whose containers point at the storage of rhs
copyConstruct_shared(H, rhs) == [heap |-> H, object |-> rhs]

\* DecBayesModelLearner(const DecBayesModelLearner& rhs): every member is
\* copy-constructed from the member of rhs; the map and the controller get
\* storage of their own, filled with copies of the contents of rhs
copyConstruct(H, rhs) ==
    LET b == CHOOSE a \in 1 .. Cardinality(DOMAIN H) + 1 : a \notin DOMAIN H
        c == b + 1
    IN  [heap   |-> (b :> maxsumCopy(H[rhs.beliefs])) @@
                    (c :> maxsumCopy(H[rhs.controller])) @@ H,
         object |-> [rhs EXCEPT !.beliefs = b, !.controller = c]]

\* operator=(rhs): every member is assigned from the member of rhs; the map and
\* the controller keep their storage and replace its contents
copyAssign(H, lhs, rhs) ==
    [heap   |-> [a \in DOMAIN H |->
                    IF a = lhs.beliefs THEN maxsumCopy(H[rhs.beliefs])
                    ELSE IF a = lhs.controller THEN maxsumCopy(H[rhs.controller])
                    ELSE H[a]],
     object |-> [rhs EXCEPT !.beliefs = lhs.beliefs, !.controller = lhs.controller]]

\* the object and the storage after a call left it as learner L with controller ms
stored(H, o, L, ms) ==
    [heap   |-> [a \in DOMAIN H |->
                    IF a = o.beliefs THEN L.rewardBeliefs
                    ELSE IF a = o.controller THEN ms
                    ELSE H[a]],
     object |-> [o EXCEPT !.actionSet = L.actionSet,
                          !.isInitialised = L.isInitialised]]

\* inputs of the calls made on the source and on its copy
CloneAddFactorInputs == { <<1, <<1, 2>> >>, <<2, <<2, 3>> >> }
CloneStateMaps == { (1 :> 1) }
CloneStateLists == { <<1>> }
CloneObserveInputs ==
    { << (1 :> 1), (2 :> 1) @@ (3 :> 0), (1 :> 0), (1 :> R(1, 1)) @@ (2 :> R(-2, 1)) >> }
CloneIterations == {1}

InitClone ==
    /\ NgIdle
    /\ learner = NewLearner(R(19, 20))
    /\ maxsum = NewController
    /\ trace = <<>>
    /\ lcall = NoCall
    /\ initInfo = NoCall
    /\ lcalls = 0
    /\ \E g \in Gammas : OneObject(g)

CloneStep ==
    /\ UNCHANGED <<ngVars, learnerVars>>
    /\ ccalls < MaxCloneCalls
    /\ ccalls' = ccalls + 1

\* the call on object name left it as learner L with controller ms
CloneStored(name, L, ms) ==
    LET out == stored(heap, objects[name], L, ms)
    IN  /\ heap' = out.heap
        /\ objects' = [objects EXCEPT ![name] = out.object]

\* Learner copy = source;
CopyConstruct ==
    /\ "copy" \notin DOMAIN objects
    /\ CloneStep
    /\ LET out == copyConstruct(heap, objects["source"])
       IN  /\ heap' = out.heap
           /\ objects' = ("copy" :> out.object) @@ objects
    /\ ccall' = [op |-> "copy", on |-> "copy", after |-> ccall.op, from |-> "source"]

\* lhs = rhs;
CopyAssign ==
    \E lhs \in DOMAIN objects, rhs \in DOMAIN objects :
        /\ lhs # rhs
        /\ CloneStep
        /\ LET out == copyAssign(heap, objects[lhs], objects[rhs])
           IN  /\ heap' = out.heap
               /\ objects' = [objects EXCEPT ![lhs] = out.object]
        /\ ccall' = [op |-> "assign", on |-> lhs, after |-> ccall.op, from |-> rhs]

\* name.addFactor(f, vs), for a factor id not registered with that object
CloneAddFactor ==
    \E name \in DOMAIN objects, in \in CloneAddFactorInputs :
        LET L == learnerOf(heap, objects[name])
        IN  /\ in[1] \notin DOMAIN L.rewardBeliefs
            /\ UNCHANGED <<ngVars, learnerVars, ccalls>>
            /\ CloneStored(name, addFactor(L, in[1], in[2]),
                           controllerOf(heap, objects[name]))
            /\ ccall' = [op |-> "addFactor", on |-> name, after |-> ccall.op,
                         factor |-> in[1]]

\* name.setStates(sl)
CloneSetStates ==
    \E name \in DOMAIN objects, sl \in CloneStateLists :
        /\ CloneStep
        /\ CloneStored(name, setStates(learnerOf(heap, objects[name]), sl),
                       controllerOf(heap, objects[name]))
        /\ ccall' = [op |-> "setStates", on |-> name, after |-> ccall.op]

\* name.actGreedy(states)
CloneActGreedy ==
    \E name \in DOMAIN objects, states \in CloneStateMaps, n \in CloneIterations :
        LET L  == learnerOf(heap, objects[name])
            ms == controllerOf(heap, objects[name])
        IN  \E a \in Assignments(GraphVars(greedyPrepared(L, ms, states).w.ms)) :
                /\ CloneStep
                /\ \E out \in { actGreedy(L, ms, states, n, a) } :
                      /\ CloneStored(name, out.L, out.w.ms)
                      /\ ccall' = [op |-> "actGreedy", on |-> name, after |-> ccall.op,
                                   actions |-> out.actions]

\* name.act(states)
CloneAct ==
    \E name \in DOMAIN objects, states \in CloneStateMaps,
       n1 \in CloneIterations, n2 \in CloneIterations :
        LET L  == learnerOf(heap, objects[name])
            ms == controllerOf(heap, objects[name])
        IN  \E a1, a2 \in Assignments(GraphVars(actPrepared(L, ms, states).w.ms)) :
                /\ CloneStep
                /\ \E out \in { act(L, ms, states, n1, a1, n2, a2) } :
                      /\ CloneStored(name, out.L, out.w.ms)
                      /\ ccall' = [op |-> "act", on |-> name, after |-> ccall.op,
                                   actions |-> out.actions]

\* name.observe(priorStates, actions, postStates, rewards)
CloneObserve ==
    \E name \in DOMAIN objects, in \in CloneObserveInputs, n \in CloneIterations :
        LET L  == learnerOf(heap, objects[name])
            ms == controllerOf(heap, objects[name])
        IN  \E a \in Assignments(GraphVars(greedyPrepared(L, ms, in[3]).w.ms)) :
                /\ CloneStep
                /\ \E out \in { observeLearner(L, ms, in[1], in[2], in[3], in[4], n, a) } :
                      /\ CloneStored(name, out.L, out.w.ms)
                      /\ ccall' = [op |-> "observe", on |-> name, after |-> ccall.op,
                                   updated |-> out.updated]

NextClone ==
    \/ CopyConstruct
    \/ CopyAssign
    \/ CloneAddFactor
    \/ CloneSetStates
    \/ CloneActGreedy
    \/ CloneAct
    \/ CloneObserve

SpecClone == InitClone /\ [][NextClone]_vars

(***************************************************************************)
(* Calls on DecBayesQ learners.  A DecBayesQ holds its members by value as *)
(* a DecBayesModelLearner does, qBeliefs_i in the place of rewardBeliefs_i *)
(* (field beliefs of an object); no member function reads alpha_i, which   *)
(* is left out.                                                            *)
(***************************************************************************)
\* DecBayesQ source(alpha, g); DecBayesQ other(0.3, 0.5);
InitQ ==
    /\ NgIdle
    /\ learner = NewLearner(R(19, 20))
    /\ maxsum = NewController
    /\ trace = <<>>
    /\ lcall = NoCall
    /\ initInfo = NoCall
    /\ lcalls = 0
    /\ \E g \in Gammas :
          objects = ("source" :> NewObject(g, 1, 2)) @@ ("other" :> NewObject(Half, 3, 4))
    /\ heap = (1 :> EmptyMap) @@ (2 :> NewController) @@
              (3 :> EmptyMap) @@ (4 :> NewController)
    /\ ccall = NoCall
    /\ ccalls = 0

\* one call on a DecBayesQ object or between two of them
QStep ==
    /\ UNCHANGED <<ngVars, learnerVars>>
    /\ ccalls < MaxQCalls
    /\ ccalls' = ccalls + 1

\* DecBayesQ copy = rhs;  DecBayesQ(const DecBayesQ& rhs) copy-constructs every
\* member from the member of rhs
QCopyConstruct ==
    \E rhs \in DOMAIN objects :
        /\ "copy" \notin DOMAIN objects
        /\ QStep
        /\ \E out \in { copyConstruct(heap, objects[rhs]) } :
              /\ heap' = out.heap
              /\ objects' = ("copy" :> out.object) @@ objects
        /\ ccall' = [op |-> "copy", on |-> "copy", from |-> rhs]

\* lhs = rhs;  DecBayesQ::operator= assigns every member from the member of rhs
QCopyAssign ==
    \E lhs \in DOMAIN objects, rhs \in DOMAIN objects :
        /\ lhs # rhs
        /\ QStep
        /\ \E out \in { copyAssign(heap, objects[lhs], objects[rhs]) } :
              /\ heap' = out.heap
              /\ objects' = [objects EXCEPT ![lhs] = out.object]
        /\ ccall' = [op |-> "assign", on |-> lhs, from |-> rhs]

\* name.addFactor(f, vs), for a factor id not registered with that object
QAddFactor ==
    \E name \in DOMAIN objects, in \in CloneAddFactorInputs :
        /\ in[1] \notin DOMAIN heap[objects[name].beliefs]
        /\ QStep
        /\ CloneStored(name, addFactor(learnerOf(heap, objects[name]), in[1], in[2]),
                       controllerOf(heap, objects[name]))
        /\ ccall' = [op |-> "addFactor", on |-> name, factor |-> in[1]]

\* name.setStates(sl)
QSetStates ==
    \E name \in DOMAIN objects, sl \in CloneStateLists :
        /\ QStep
        /\ CloneStored(name, setStates(learnerOf(heap, objects[name]), sl),
                       controllerOf(heap, objects[name]))
        /\ ccall' = [op |-> "setStates", on |-> name]

\* name.actGreedy(states)
QActGreedy ==
    \E name \in DOMAIN objects, states \in CloneStateMaps, n \in CloneIterations :
        \E a \in Assignments(GraphVars(greedyPrepared(learnerOf(heap, objects[name]),
                                                      controllerOf(heap, objects[name]),
                                                      states).w.ms)) :
            /\ QStep
            /\ \E out \in { actGreedy(learnerOf(heap, objects[name]),
                                      controllerOf(heap, objects[name]),
                                      states, n, a) } :
                  /\ CloneStored(name, out.L, out.w.ms)
                  /\ ccall' = [op |-> "actGreedy", on |-> name,
                               actions |-> out.actions, ret |-> out.ret]

\* name.act(states)
QAct ==
    \E name \in DOMAIN objects, states \in CloneStateMaps,
       n1 \in CloneIterations, n2 \in CloneIterations :
        \E a1, a2 \in Assignments(GraphVars(greedyPrepared(learnerOf(heap, objects[name]),
                                                           controllerOf(heap, objects[name]),
                                                           states).w.ms)) :
            /\ QStep
            /\ \E out \in { actQ(learnerOf(heap, objects[name]),
                                 controllerOf(heap, objects[name]),
                                 states, n1, a1, n2, a2) } :
                  /\ CloneStored(name, out.L, out.w.ms)
                  /\ ccall' = [op |-> "act", on |-> name,
                               actions |-> out.actions, ret |-> out.ret]

\* name.observe(priorStates, actions, postStates, rewards)
QObserve ==
    \E name \in DOMAIN objects, in \in CloneObserveInputs, n \in CloneIterations :
        \E a \in Assignments(GraphVars(greedyPrepared(learnerOf(heap, objects[name]),
                                                      controllerOf(heap, objects[name]),
                                                      in[3]).w.ms)) :
            /\ QStep
            /\ \E out \in { observeQ(learnerOf(heap, objects[name]),
                                     controllerOf(heap, objects[name]),
                                     in[1], in[2], in[3], in[4], n, a) } :
                  /\ CloneStored(name, out.L, out.w.ms)
                  /\ ccall' = [op |-> "observe", on |-> name, rewards |-> in[4],
                               priorVars |-> out.priorVars,
                               postVars |-> out.postVars, found |-> out.found]

NextQ ==
    \/ QCopyConstruct
    \/ QCopyAssign
    \/ QAddFactor
    \/ QSetStates
    \/ QActGreedy
    \/ QAct
    \/ QObserve

SpecQ == InitQ /\ [][NextQ]_vars

(***************************************************************************)
(* Properties of the belief updates                                        *)
(***************************************************************************)
PositiveBelief(q) ==
    RLess(Zero, q.alpha) /\ RLess(Zero, q.beta) /\ RLess(Zero, q.lambda)

\* two doubles that are equal, or differ by rounding only: by no more than
\* 1e-12 of the larger
Near(a, b) ==
    \/ a = b
    \/ LET size == IF RLess(RAbs(a), RAbs(b)) THEN RAbs(b) ELSE RAbs(a)
       IN  RLeq(RAbs(RSub(a, b)), RMul(Dec(1, 12), size))

\* two beliefs whose hyperparameters differ by rounding only
Close(p, q) ==
    /\ Near(p.alpha, q.alpha)
    /\ Near(p.beta, q.beta)
    /\ Near(p.lambda, q.lambda)
    /\ Near(p.m, q.m)

\* two beliefs whose hyperparameters are the same doubles
SameDoubles(p, q) ==
    /\ REq(p.alpha, q.alpha)
    /\ REq(p.beta, q.beta)
    /\ REq(p.lambda, q.lambda)
    /\ REq(p.m, q.m)

PositiveVec(d) == \A k \in DOMAIN d.alpha.vals : PositiveBelief(At(d, k))

\* C1: every belief that started from the library defaults or from positive
\* hyperparameters has alpha > 0, beta > 0 and lambda > 0 after any sequence of
\* observe and moment-observe calls on it and of observe calls on the learner
\* that holds it, at every index of a vectorised belief: the beliefs of the
\* harness and every reward belief of the learner.
C1_HyperparametersStayPositive ==
    /\ PositiveBelief(scalar)
    /\ PositiveBelief(single)
    /\ PositiveVec(vec)
    /\ PositiveVec(vsingle)
    /\ \A f \in DOMAIN learner.rewardBeliefs : PositiveVec(learner.rewardBeliefs[f])

\* the learner's observe has just run its reward update on a registered factor
\* with a negative reward, and the variance term it computed divided by a
\* negative alpha - 1: moments that must not reach the belief
C1_Witness ==
    /\ lcall.op = "observe"
    /\ \E k \in DOMAIN lcall.updated :
          /\ RLess(lcall.rewards[lcall.updated[k]], Zero)
          /\ RLess(lcall.divisors[k], Zero)
          /\ lcall.updated[k] \in DOMAIN learner.rewardBeliefs

\* the single-sample posterior of section 4.1, from the values before the call
ObservePosterior(q, x) ==
    LET lambda1 == RAdd(q.lambda, One)
        dev     == RSub(q.m, x)
    IN  NormalGamma(RAdd(q.alpha, Half),
                    RAdd(q.beta, RDiv(RMul(q.lambda, RMul(dev, dev)), RMul(Two, lambda1))),
                    lambda1,
                    RDiv(RAdd(RMul(q.lambda, q.m), x), lambda1))

\* C2: observe(belief, x) sets alpha' = alpha + 1/2, lambda' = lambda + 1,
\* m' = (lambda m + x)/lambda' and beta' = beta + lambda (m - x)^2 / (2 lambda'),
\* all from the values before the call, in the scalar, the whole-domain and
\* the indexed overload (each up to the rounding of the double arithmetic).
C2_ObserveIsPosterior ==
    /\ call.op = "observe" => Close(scalar, ObservePosterior(pre.scalar, call.x))
    /\ call.op = "observeVec" =>
           \A k \in VecIndices :
               Close(At(vec, k), ObservePosterior(At(pre.vec, k), call.x))
    /\ call.op = "observeAt" =>
           Close(At(vec, call.index), ObservePosterior(At(pre.vec, call.index), call.x))

\* a whole-domain observe on a belief whose m differs from the observation and
\* from zero, so that using the new m or lambda in beta would show
C2_Witness ==
    /\ call.op = "observeVec"
    /\ ncalls >= 2
    /\ \E k \in VecIndices :
          /\ At(pre.vec, k).m # call.x
          /\ At(pre.vec, k).m # Zero
          /\ RLess(At(pre.vec, k).beta, At(vec, k).beta)

\* the sufficient-statistics posterior of section 4.1
MomentsPosterior(q, sm, s2, n) ==
    LET nn      == R(n, 1)
        lambda1 == RAdd(q.lambda, nn)
        dev     == RSub(sm, q.m)
    IN  NormalGamma(RAdd(q.alpha, RDiv(nn, Two)),
                    RAdd(RAdd(q.beta, RDiv(s2, Two)),
                         RDiv(RMul(RMul(nn, q.lambda), RMul(dev, dev)),
                              RMul(Two, lambda1))),
                    lambda1,
                    RDiv(RAdd(RMul(q.lambda, q.m), RMul(nn, sm)), lambda1))

\* C3: observe(belief, sampleMean, sumSquares, n) sets alpha' = alpha + n/2,
\* lambda' = lambda + n, m' = (lambda m + n sampleMean)/lambda' and
\* beta' = beta + sumSquares/2 + n lambda (sampleMean - m)^2 / (2 lambda'),
\* in the scalar, the whole-domain and the single-index overload (each up to
\* the rounding of the double arithmetic).
C3_MomentsIsPosterior ==
    /\ call.op = "observeMoments" =>
           Close(scalar, MomentsPosterior(pre.scalar, call.sm, call.s2, call.n))
    /\ call.op = "observeMomentsVec" =>
           \A k \in VecIndices :
               Close(At(vec, k),
                     MomentsPosterior(At(pre.vec, k), call.sm, call.s2, call.n))
    /\ call.op = "observeMomentsAt" =>
           Close(At(vec, call.index),
                 MomentsPosterior(At(pre.vec, call.index), call.sm, call.s2, call.n))

\* the belief reached from q by observe(q, x_1), ..., observe(q, x_n)
RECURSIVE SeqObserve(_, _)
SeqObserve(q, xs) ==
    IF xs = <<>> THEN q ELSE SeqObserve(observe(q, Head(xs)), Tail(xs))

\* equality up to a relative tolerance of 1e-4
WithinTol(a, b) ==
    \/ a = b
    \/ LET size == IF RLess(RAbs(a), RAbs(b)) THEN RAbs(b) ELSE RAbs(a)
       IN  RLeq(RAbs(RSub(a, b)), RMul(Dec(1, 4), size))

Consistent(p, q) ==
    /\ WithinTol(p.alpha, q.alpha)
    /\ WithinTol(p.beta, q.beta)
    /\ WithinTol(p.lambda, q.lambda)
    /\ WithinTol(p.m, q.m)

\* C4: one moment update with (mean(x), sum of (x_i - mean)^2, n) yields the same
\* belief as the n calls observe(x_1), ..., observe(x_n) on a copy of the same
\* prior, for a scalar belief and for the indexed element of a vectorised one.
C4_MomentsEqualSequential ==
    /\ call.op = "sampleMoments" => Consistent(SeqObserve(prior, hist), single)
    /\ call.op = "sampleMomentsAt" =>
           Consistent(SeqObserve(prior, Values(vhist[call.index])),
                      At(vsingle, call.index))

\* C5: an indexed update (single observation or moments) leaves the quadruple at
\* every other index as it was, and leaves the variables and the size of the
\* domain of all four hyperparameter tables unchanged.
C5_IndexedUpdateFrame ==
    call.op \in {"observeAt", "observeMomentsAt"} =>
        /\ \A k \in VecIndices \ {call.index} : At(vec, k) = At(pre.vec, k)
        /\ \A h \in {"alpha", "beta", "lambda", "m"} :
              /\ vec[h].vars = pre.vec[h].vars
              /\ DOMAIN vec[h].vals = DOMAIN pre.vec[h].vals

\* an indexed observe changed its own index and another index exists
C5_Witness ==
    /\ call.op = "observeAt"
    /\ At(vec, call.index) # At(pre.vec, call.index)
    /\ \E k \in VecIndices : k # call.index /\ Len(vhist[k]) >= 1

\* C6: the quadruple at each index k of a vectorised belief equals the scalar
\* belief obtained from the same prior by observing, in order, exactly the
\* observations applied to index k (whole-domain ones and indexed ones at k).
C6_VecIsFamilyOfScalars ==
    \A k \in VecIndices : SameDoubles(At(vec, k), SeqObserve(prior, Values(vhist[k])))

(***************************************************************************)
(* Properties of the learner                                               *)
(***************************************************************************)
InitialisingCalls == {"act", "actGreedy", "setStates", "observe"}

\* a step keeps an initialised learner initialised with the same action list, and
\* initialises the learner exactly in the calls that run setStates
StaysInitialised ==
    /\ learner.isInitialised =>
           /\ learner'.isInitialised
           /\ learner'.actionSet = learner.actionSet
    /\ (lcalls' # lcalls /\ lcall'.op \in InitialisingCalls) =>
           learner'.isInitialised
    /\ (~learner.isInitialised /\ learner'.isInitialised) =>
           (lcalls' # lcalls /\ lcall'.op \in InitialisingCalls)

\* C7: the learner starts uninitialised; a call of act, actGreedy or setStates
\* leaves it initialised; only such calls (observe runs actGreedy) initialise it;
\* once initialised it stays so and its action-variable list never changes again.
C7_InitialisedOnceAndCached ==
    /\ ~learner.isInitialised
    /\ [][StaysInitialised]_vars

\* an initialised learner with a non-empty action list was handed state variables
\* other than those it was initialised with
C7_Witness ==
    /\ learner.isInitialised
    /\ learner.actionSet # <<>>
    /\ lcalls >= 2
    /\ lcall.op = "setStates"
    /\ Range(lcall.states) # initInfo.stateKeys
    /\ set_difference(SortedSeq(initInfo.factorVars), lcall.states) # learner.actionSet

InitialisesToComplement ==
    (~learner.isInitialised /\ learner'.isInitialised) =>
        /\ learner'.actionSet = SortedSeq(initInfo'.factorVars \ initInfo'.stateKeys)
        /\ Range(learner'.actionSet) \cap initInfo'.stateKeys = {}

\* C8: the step that initialises the learner leaves as action-variable list the
\* variables of all registered factors that are no key of the supplied states,
\* once each in ascending order, so that no variable is both state and action.
C8_ActionSetIsComplement == [][InitialisesToComplement]_vars

\* initialised with two action variables, one factor variable being a state
C8_Witness ==
    /\ learner.isInitialised
    /\ Len(learner.actionSet) >= 2
    /\ initInfo.stateKeys \cap initInfo.factorVars # {}
    /\ lcalls = 1

\* the positions of the optimise calls in the controller calls of the last handler
OptimiseAt == { i \in DOMAIN trace : trace[i].call = "optimise" }

BonusAt == { i \in DOMAIN trace : /\ trace[i].call = "getUnSafeWritableFactorHandle"
                                  /\ trace[i].write = "add" }

FirstPass == CHOOSE i \in OptimiseAt : \A j \in OptimiseAt : i <= j

SecondPass == CHOOSE i \in OptimiseAt : \A j \in OptimiseAt : j <= i

\* C9: a call of act runs optimise exactly twice, the first pass before and the
\* second after every VPI bonus; it returns the joint assignment the controller
\* holds after the second pass and the sum of the two iteration counts.
C9_ActRunsTwoPasses ==
    lcall.op = "act" =>
        /\ Cardinality(OptimiseAt) = 2
        /\ \A k \in BonusAt : FirstPass < k /\ k < SecondPass
        /\ lcall.actions = maxsum.values
        /\ lcall.ret = trace[FirstPass].iterations + trace[SecondPass].iterations

\* act on two factors whose passes took different numbers of iterations
C9_Witness ==
    /\ lcall.op = "act"
    /\ Cardinality(DOMAIN learner.rewardBeliefs) = 2
    /\ Cardinality(OptimiseAt) = 2
    /\ trace[FirstPass].iterations # trace[SecondPass].iterations
    /\ DOMAIN lcall.actions # {}

\* the positions, between the two passes, of a call of the given kind on factor f
Between(f, kind) ==
    { k \in DOMAIN trace : /\ FirstPass < k
                           /\ k < SecondPass
                           /\ trace[k].call = kind
                           /\ trace[k].factor = f }

\* the VPI bonus act has to add for factor f: from the total value cached by the
\* first pass and alpha, beta, lambda conditioned on the states of the call
ExpectedBonus(f) ==
    LET b == learner.rewardBeliefs[f]
    IN  exactVPIVec([m      |-> [factor |-> f, epoch |-> maxsum.epoch - 1,
                                 vars |-> condition(b.m, lcall.states).vars],
                     alpha  |-> condition(b.alpha, lcall.states),
                     beta   |-> condition(b.beta, lcall.states),
                     lambda |-> condition(b.lambda, lcall.states)])

\* C10: in a call of act, between the two passes, every registered factor gets
\* exactly one VPI bonus added to its table and exactly one notification; the
\* bonus is the VPI of alpha, beta, lambda conditioned on the states m was
\* conditioned on and of the total value of the first pass; nothing is written
\* or notified after the second pass.
C10_OneBonusPerFactor ==
    lcall.op = "act" =>
        /\ Cardinality(OptimiseAt) = 2
        /\ SecondPass = Len(trace)
        /\ \A k \in BonusAt : FirstPass < k /\ k < SecondPass
        /\ \A f \in DOMAIN learner.rewardBeliefs :
              /\ Cardinality(Between(f, "getUnSafeWritableFactorHandle")) = 1
              /\ Cardinality(Between(f, "notifyFactor")) = 1
              /\ Cardinality(Between(f, "getTotalValue")) = 1
              /\ \A k \in Between(f, "getUnSafeWritableFactorHandle") :
                    /\ trace[k].write = "add"
                    /\ trace[k].bonus = ExpectedBonus(f)
                    /\ \A g \in Between(f, "getTotalValue") : g < k
                    /\ \A g \in Between(f, "notifyFactor") : k < g
              /\ maxsum.factors[f].value =
                     condition(learner.rewardBeliefs[f].m, lcall.states)
              /\ maxsum.factors[f].bonus = <<ExpectedBonus(f)>>

\* act on an initialised learner with two factors: the tables were rewritten
\* through the handle before the first pass and each got its bonus after it
C10_Witness ==
    /\ lcall.op = "act"
    /\ lcalls >= 2
    /\ Cardinality(DOMAIN learner.rewardBeliefs) = 2
    /\ Cardinality(BonusAt) = 2
    /\ \E k \in DOMAIN trace : /\ trace[k].call = "getUnSafeWritableFactorHandle"
                               /\ trace[k].write = "assign"
                               /\ k < FirstPass

\* the positions in the controller calls of the last handler of a setFactor for f
SetFactorAt(f) ==
    { k \in DOMAIN trace : trace[k].call = "setFactor" /\ trace[k].factor = f }

\* what a state reached by a call of actGreedy has to look like
GreedyOutcome ==
    /\ Cardinality(OptimiseAt) = 1
    /\ FirstPass = Len(trace)
    /\ BonusAt = {}
    /\ \A f \in DOMAIN learner.rewardBeliefs :
          /\ Cardinality(SetFactorAt(f)) = 1
          /\ maxsum.factors[f].value =
                 condition(learner.rewardBeliefs[f].m, lcall.states)
          /\ maxsum.factors[f].bonus = <<>>
    /\ lcall.actions = maxsum.values
    /\ lcall.ret = trace[FirstPass].iterations

GreedyStep ==
    (lcalls' # lcalls /\ lcall'.op = "actGreedy") =>
        /\ GreedyOutcome'
        /\ learner'.rewardBeliefs = learner.rewardBeliefs

\* C11: a call of actGreedy hands every registered factor's m, conditioned on
\* the given states, to the controller with setFactor, runs optimise exactly
\* once and last, adds no VPI bonus, leaves every belief as it was and returns
\* the controller's assignment and the iteration count of that pass.
C11_ActGreedyIsOnePass == [][GreedyStep]_vars

\* a call of actGreedy, not the first call, on a learner with two factors
C11_Witness ==
    /\ lcall.op = "actGreedy"
    /\ lcalls >= 2
    /\ Cardinality(DOMAIN learner.rewardBeliefs) = 2
    /\ DOMAIN lcall.actions # {}
    /\ \A f \in DOMAIN learner.rewardBeliefs : Cardinality(SetFactorAt(f)) = 1

\* the moments of the bootstrap target of section 4.3, from the belief q at postVars
TargetMean(q, r, gamma) == RAdd(r, RMul(gamma, q.m))

TargetSecondMoment(q, r, gamma) ==
    LET expSigma2 == RDiv(q.beta, RSub(q.alpha, One))
        expR2     == RAdd(RMul(q.m, q.m),
                          RMul(RAdd(One, RDiv(One, q.lambda)), expSigma2))
    IN  RAdd(RAdd(RMul(r, r), RMul(RMul(RMul(Two, gamma), r), q.m)),
             RMul(RMul(gamma, gamma), expR2))

\* the belief of a factor at the joint assignment a
AtVars(dist, a) == At(dist, sub2ind(dist.alpha.vars, a))

RewardUpdateIsPosterior ==
    (lcalls' # lcalls /\ lcall'.op = "observe") =>
        \A f \in DOMAIN lcall'.rewards \cap DOMAIN learner.rewardBeliefs :
            LET old    == AtVars(learner.rewardBeliefs[f], lcall'.priorVars)
                new    == AtVars(learner'.rewardBeliefs[f], lcall'.priorVars)
                target == AtVars(learner.rewardBeliefs[f], lcall'.postVars)
                r      == lcall'.rewards[f]
            IN  /\ Near(new.alpha, RAdd(old.alpha, Half))
                /\ Near(new.lambda, RAdd(old.lambda, One))
                /\ RLess(One, target.alpha) =>
                       Close(new, MomentsPosterior(old, TargetMean(target, r, learner.gamma),
                                 TargetSecondMoment(target, r, learner.gamma), 1))

\* C12: observe leaves, for every rewarded registered factor, at priorVars the
\* moments posterior of the previous belief there with sampleMean = expQ,
\* sumSquares = expQ2 and n = 1, expQ and expQ2 taken from the factor's belief
\* at postVars before the update; in particular alpha at priorVars grows by
\* 1/2 and lambda by 1.
C12_RewardUpdateIsMomentsPosterior == [][RewardUpdateIsPosterior]_vars

NoDivisionByNonPositive ==
    (lcalls' # lcalls /\ lcall'.op = "observe") =>
        \A k \in DOMAIN lcall'.updated :
            LET f      == lcall'.updated[k]
                old    == AtVars(learner.rewardBeliefs[f], lcall'.priorVars)
                new    == AtVars(learner'.rewardBeliefs[f], lcall'.priorVars)
                target == AtVars(learner.rewardBeliefs[f], lcall'.postVars)
            IN  RLeq(target.alpha, One) =>
                    /\ RLess(Zero, lcall'.divisors[k])
                    /\ \/ new = old
                       \/ Close(new, ObservePosterior(old, lcall'.rewards[f]))

\* C13: when the belief of a rewarded registered factor at postVars has
\* alpha <= 1, observe never divides beta by the non-positive alpha - 1: the
\* update is skipped (the belief at priorVars unchanged) or replaced by the
\* single-observation update.
C13_NoDivisionByNonPositive == [][NoDivisionByNonPositive]_vars

\* the reward entries of registered factors, in the order of the reward map
RegisteredRewards(rewards, beliefs) ==
    SelectSeq(Keys(rewards), LAMBDA f : f \in DOMAIN beliefs)

SkipsUnregistered ==
    (lcalls' # lcalls /\ lcall'.op = "observe") =>
        /\ DOMAIN learner'.rewardBeliefs = DOMAIN learner.rewardBeliefs
        /\ lcall'.updated = RegisteredRewards(lcall'.rewards, learner.rewardBeliefs)
        /\ \A f \in DOMAIN learner.rewardBeliefs \ DOMAIN lcall'.rewards :
              learner'.rewardBeliefs[f] = learner.rewardBeliefs[f]

\* C14: observe skips a reward entry whose factor id was never registered: the
\* call completes, the id is not added to the belief store, no belief changes
\* on its account, and the update is still called for every registered entry
\* of the reward map, before and after the skipped one.
C14_UnregisteredRewardSkipped == [][SkipsUnregistered]_vars

\* observe skipped an unregistered id and then updated a registered one after it
C14_Witness ==
    /\ lcall.op = "observe"
    /\ \E f \in DOMAIN lcall.rewards, g \in DOMAIN learner.rewardBeliefs :
          /\ f \notin DOMAIN learner.rewardBeliefs
          /\ f < g
          /\ g \in Range(lcall.updated)

(***************************************************************************)
(* Properties of the VPI functions                                         *)
(***************************************************************************)
\* C15: for a belief with alpha < 1/2, truncationBias and exactVPI return the
\* infinity sentinel itself, for every x, bestVal1, bestVal2 and isBestAction:
\* no gamma-function term and no distribution function is evaluated.
C15_InfinityBelowHalf ==
    (call.op \in {"truncationBias", "exactVPI"} /\ RLess(pre.scalar.alpha, Half)) =>
        call.result = Infinity

\* exactVPI was asked of a belief with alpha < 1/2 for the best action, and the
\* same run had asked it before
C15_Witness ==
    /\ call.op = "exactVPI"
    /\ call.isBestAction
    /\ RLess(scalar.alpha, Half)
    /\ call.result = Infinity
    /\ ncalls >= 2

(***************************************************************************)
(* Properties of the registration of factors                               *)
(***************************************************************************)
\* every hyperparameter table of d is defined over exactly the variables vs and
\* holds the library default at every joint index
DefaultOver(d, vs) ==
    /\ \A h \in {"alpha", "beta", "lambda", "m"} :
          /\ Range(d[h].vars) = Range(vs)
          /\ DOMAIN d[h].vals = 0 .. domainSize(SortedSeq(Range(vs))) - 1
    /\ \A k \in DOMAIN d.alpha.vals : At(d, k) = DefaultBelief

\* C19: addFactor(f, vars) for an id f not registered before creates a belief
\* for f over exactly vars holding the default quadruple (1e-8, 1e-17, 1e-23, 0)
\* at every joint index, and registers a factor f over vars with the controller.
C19_AddFactorRegisters ==
    (lcall.op = "addFactor" /\ lcall.fresh) =>
        /\ lcall.factor \in DOMAIN learner.rewardBeliefs
        /\ DefaultOver(learner.rewardBeliefs[lcall.factor], lcall.vars)
        /\ lcall.factor \in DOMAIN maxsum.factors
        /\ Range(maxsum.factors[lcall.factor].value.vars) = Range(lcall.vars)

\* a step leaves the variables and the size of every registered factor's tables
\* as they are
DomainFixed ==
    \A f \in DOMAIN learner.rewardBeliefs :
        /\ f \in DOMAIN learner'.rewardBeliefs
        /\ \A h \in {"alpha", "beta", "lambda", "m"} :
              /\ learner'.rewardBeliefs[f][h].vars = learner.rewardBeliefs[f][h].vars
              /\ DOMAIN learner'.rewardBeliefs[f][h].vals =
                     DOMAIN learner.rewardBeliefs[f][h].vals

\* C20: once addFactor has fixed the domain of a factor, the variables and the
\* size of its belief tables are the same in every later state, whatever calls
\* follow; a second addFactor for the same id, also after a first one with an
\* empty variable list, changes neither its domain nor its hyperparameters.
C20_DomainNeverResized == [][DomainFixed]_vars

\* what a learner object holds: its beliefs, action set, initialised flag and
\* discount factor, and the state of its controller
ViewOf(name) == [learner    |-> learnerOf(heap, objects[name]),
                 controller |-> controllerOf(heap, objects[name])]

\* a step leaves every object other than the one it is made on as it was
OthersUntouched ==
    \A name \in DOMAIN objects : name # ccall'.on => ViewOf(name)' = ViewOf(name)

\* C18: a learner made by the copy constructor or by copy assignment shares no
\* mutable state with its source: every addFactor, setStates, act, actGreedy
\* and observe call on one of the two, and every copy into one of them, leaves
\* the belief store, action set, initialised flag and controller state of the
\* other exactly as they were
C18_CopiesAreIndependent == [][OthersUntouched]_vars

\* act has just run on the copy of a learner that has a factor, right after a
\* copy assignment between the two had made them equal; the copy has by now
\* another initialised flag, action set and controller state than its source
C18_Witness ==
    /\ "copy" \in DOMAIN objects
    /\ ccall.op = "act"
    /\ ccall.on = "copy"
    /\ ccall.after = "assign"
    /\ ViewOf("source").learner.rewardBeliefs # EmptyMap
    /\ ViewOf("copy").learner.rewardBeliefs = ViewOf("source").learner.rewardBeliefs
    /\ ViewOf("copy").learner.isInitialised # ViewOf("source").learner.isInitialised
    /\ ViewOf("copy").learner.actionSet # ViewOf("source").learner.actionSet
    /\ ViewOf("copy").controller # ViewOf("source").controller

\* C21: the marginal of the mean has a variance exactly when alpha > 1, and
\* variance and standard_deviation return the infinity sentinel for every
\* belief whose marginal has no variance, alpha = 1 (df = 2) included
C21_NoVarianceGivesInfinity ==
    /\ hasVariance(meanMarginal(scalar)) <=> RLess(One, scalar.alpha)
    /\ (/\ call.op \in {"variance", "standard_deviation"}
        /\ ~hasVariance(meanMarginal(scalar)))
       => call.result = Infinity

\* the gain of one sampled value
SampleGain(isBestAction, bestVal1, bestVal2, v) ==
    IF isBestAction
    THEN (IF RLess(v, bestVal2) THEN RSub(bestVal2, v) ELSE Zero)
    ELSE (IF RLess(bestVal1, v) THEN RSub(v, bestVal1) ELSE Zero)

\* C22: sampledVPI draws exactly noSamples values and returns the mean of
\* max(0, bestVal2 - sample) for the best action, of max(0, sample - bestVal1)
\* otherwise; the value returned is a number >= 0 for every sample sequence
\* and every noSamples, so the assertion expGain >= 0 holds
C22_SampledVPIIsMeanGain ==
    call.op = "sampledVPI returned" =>
        /\ call.drawn = call.noSamples
        /\ ~IsNaN(call.result)
        /\ RLeq(Zero, call.result)
        /\ call.result =
              RDiv(SeqSum([k \in 1 .. call.noSamples |->
                              SampleGain(call.isBestAction, call.bestVal1,
                                         call.bestVal2, call.samples[k])]),
                   R(call.noSamples, 1))

\* C23: for a belief with alpha exactly 1/2, exactVPI and truncationBias return
\* the infinity sentinel instead of evaluating the closed form, whose
\* Gamma(alpha - 1/2) term is undefined there
C23_InfinityAtHalf ==
    (/\ call.op \in {"truncationBias", "exactVPI"}
     /\ scalar.alpha = Half)
    => call.result = Infinity

\* C24: in observe, postVars maps every variable of postStates to its value
\* there and every other variable to the value chosen by the one actGreedy call
\* of that observe; that call is a greedy pass (one optimise, no VPI bonus) made
\* on the beliefs as they are before the reward loop, and every factor updated
\* reads its next belief at the index of that same postVars
C24_BootstrapIsGreedy ==
    lcall.op = "observe" =>
        /\ Cardinality(OptimiseAt) = 1
        /\ BonusAt = {}
        /\ FirstPass = Len(trace)
        /\ \A f \in DOMAIN learner.rewardBeliefs :
              maxsum.factors[f].value =
                  condition(learner.rewardBeliefs[f].m, lcall.postStates)
        /\ DOMAIN lcall.postVars = DOMAIN lcall.postStates \cup DOMAIN maxsum.values
        /\ \A v \in DOMAIN lcall.postStates : lcall.postVars[v] = lcall.postStates[v]
        /\ \A v \in DOMAIN maxsum.values \ DOMAIN lcall.postStates :
              lcall.postVars[v] = maxsum.values[v]
        /\ Len(lcall.postIndices) = Len(lcall.updated)
        /\ \A k \in DOMAIN lcall.updated :
              lcall.postIndices[k] =
                  sub2ind(learner.rewardBeliefs[lcall.updated[k]].alpha.vars,
                          lcall.postVars)

\* observe on a learner with two factors, both rewarded: the greedy call chose a
\* value other than 0 for an action variable and both factors read their next
\* belief, one of them at an index other than 0
C24_Witness ==
    /\ lcall.op = "observe"
    /\ Len(lcall.updated) = 2
    /\ \E v \in DOMAIN maxsum.values : lcall.postVars[v] # 0
    /\ \E k \in DOMAIN lcall.postIndices : lcall.postIndices[k] # 0

\* an observe step moves the belief of every registered factor that has a
\* reward, at the joint index of priorStates and actions: alpha and lambda
\* are larger there than before the call
QObserveUpdates ==
    \A name \in DOMAIN objects :
        (ccall'.op = "observe" /\ ccall'.on = name) =>
            \A f \in DOMAIN ccall'.rewards \cap DOMAIN ViewOf(name).learner.rewardBeliefs :
                /\ RLess(At(ViewOf(name).learner.rewardBeliefs[f],
                            sub2ind(ViewOf(name).learner.rewardBeliefs[f].alpha.vars,
                                    ccall'.priorVars)).alpha,
                         At(ViewOf(name)'.learner.rewardBeliefs[f],
                            sub2ind(ViewOf(name).learner.rewardBeliefs[f].alpha.vars,
                                    ccall'.priorVars)).alpha)
                /\ RLess(At(ViewOf(name).learner.rewardBeliefs[f],
                            sub2ind(ViewOf(name).learner.rewardBeliefs[f].alpha.vars,
                                    ccall'.priorVars)).lambda,
                         At(ViewOf(name)'.learner.rewardBeliefs[f],
                            sub2ind(ViewOf(name).learner.rewardBeliefs[f].alpha.vars,
                                    ccall'.priorVars)).lambda)

\* C25: after DecBayesQ::observe, the Q-value belief of every registered factor
\* that appears in rewards has been updated at the joint index of priorStates
\* and actions: its hyperparameters differ from those before the call, alpha
\* and lambda having increased
C25_QObserveUpdatesBeliefs == [][QObserveUpdates]_vars

\* C26: in every sequence of addFactor, setStates, act, actGreedy and observe
\* calls, act asks the controller for a writable handle (and then a total
\* value) only of factors the controller already holds, setStates before the
\* first act and addFactor after initialisation included
C26_ActUsesRegisteredFactors ==
    lcall.op = "act" =>
        \A k \in DOMAIN trace :
            trace[k].call = "getUnSafeWritableFactorHandle" => trace[k].known

\* an observe step leaves alone every belief it is not asked to update
ObserveFrame ==
    lcall'.op = "observe" =>
        /\ DOMAIN learner'.rewardBeliefs = DOMAIN learner.rewardBeliefs
        /\ \A f \in DOMAIN learner.rewardBeliefs :
              LET old == learner.rewardBeliefs[f]
                  new == learner'.rewardBeliefs[f]
                  j   == sub2ind(old.alpha.vars, lcall'.priorVars)
              IN  /\ \A h \in {"alpha", "beta", "lambda", "m"} :
                        /\ new[h].vars = old[h].vars
                        /\ DOMAIN new[h].vals = DOMAIN old[h].vals
                  /\ \A k \in DOMAIN old.alpha.vals :
                        (f \notin DOMAIN lcall'.rewards \/ k # j)
                            => At(new, k) = At(old, k)
        /\ learner.isInitialised =>
              /\ learner'.isInitialised
              /\ learner'.actionSet = learner.actionSet

\* C27: the learner's observe changes hyperparameters only of factors that are
\* registered and have a reward, and of those only at the joint index of
\* priorStates and actions; every other index, every other factor's belief,
\* and the action set and initialised flag of an initialised learner stay as
\* they were
C27_ObserveFrame == [][ObserveFrame]_vars

\* observe on an initialised learner with two factors, one of them rewarded,
\* over domains of more than one index
C27_Witness ==
    /\ lcall.op = "observe"
    /\ lcalls = 2
    /\ lcall.updated = <<1>>
    /\ DOMAIN learner.rewardBeliefs = {1, 2}
    /\ \A f \in {1, 2} : Cardinality(DOMAIN learner.rewardBeliefs[f].alpha.vals) > 1

\* the first optimise of an act, actGreedy or observe step runs on tables that
\* hold, for every registered factor, m conditioned on the states of the call
\* and no VPI bonus
GreedyPassIsFresh ==
    lcall'.op \in {"act", "actGreedy", "observe"} =>
        LET states == IF lcall'.op = "observe" THEN lcall'.postStates
                      ELSE lcall'.states
            first  == CHOOSE i \in DOMAIN trace' :
                         /\ trace'[i].call = "optimise"
                         /\ \A j \in 1 .. i - 1 : trace'[j].call # "optimise"
        IN  \A f \in DOMAIN learner.rewardBeliefs :
                /\ f \in DOMAIN trace'[first].tables
                /\ trace'[first].tables[f] =
                       Table(condition(learner.rewardBeliefs[f].m, states))

\* C28: VPI bonuses do not persist across calls: at the start of the greedy pass
\* of every act and actGreedy call, the one inside observe included, the table
\* the controller holds for each registered factor is that factor's m
\* conditioned on the states of this call, with nothing left of a bonus added by
\* an earlier act, on the setFactor path and on the writable-handle path
C28_BonusDoesNotPersist == [][GreedyPassIsFresh]_vars

\* a second act, on the writable-handle path, after an act that left a bonus on
\* the tables of two factors
C28_Witness ==
    /\ lcall.op = "act"
    /\ lcalls = 2
    /\ DOMAIN learner.rewardBeliefs = {1, 2}
    /\ \A f \in {1, 2} :
          \E k \in DOMAIN trace : /\ k < FirstPass
                                  /\ trace[k].call = "getUnSafeWritableFactorHandle"
                                  /\ trace[k].factor = f
                                  /\ trace[k].known
                                  /\ trace[k].write = "assign"

\* the variables of the factors registered now
RegisteredVars ==
    UNION { Range(learner.rewardBeliefs[f].alpha.vars) : f \in DOMAIN learner.rewardBeliefs }

\* C29: whenever the learner is initialised, its action-variable list holds
\* exactly the variables of all factors registered now that are not among the
\* state variables fixed at initialisation, also after addFactor has added, to
\* an initialised learner, a factor that mentions a new variable
C29_ActionSetTracksFactors ==
    learner.isInitialised =>
        Range(learner.actionSet) = RegisteredVars \ initInfo.stateKeys

\* alpha and lambda of new are those of old after n more observations
Counted(new, old, n) ==
    /\ new.lambda = RAdd(old.lambda, R(n, 1))
    /\ new.alpha = RAdd(old.alpha, RDiv(R(n, 1), Two))

\* lambda - lambda0 = 2 * (alpha - alpha0), neither below its value at creation
Coupled(q, q0) ==
    /\ Near(RSub(q.lambda, q0.lambda), RMul(Two, RSub(q.alpha, q0.alpha)))
    /\ RLeq(q0.alpha, q.alpha)
    /\ RLeq(q0.lambda, q.lambda)

\* the number of observations the last call applied at index k of vec
CountedAt(k) ==
    IF call.op = "observeVec" THEN 1
    ELSE IF call.op = "observeMomentsVec" THEN call.n
    ELSE IF call.op = "observeAt" /\ call.index = k THEN 1
    ELSE IF call.op = "observeMomentsAt" /\ call.index = k THEN call.n
    ELSE 0

\* C30: at every index, after every sequence of observe and observeMoments
\* calls, alpha and lambda have not decreased and lambda - lambda0 =
\* 2 * (alpha - alpha0) = the number of observations applied there since
\* creation, an observe counting 1 and an observeMoments its n: every call adds
\* its count to lambda and half of it to alpha
C30_AlphaLambdaCountObservations ==
    /\ Coupled(scalar, prior)
    /\ Coupled(single, prior)
    /\ \A k \in VecIndices : Coupled(At(vec, k), prior) /\ Coupled(At(vsingle, k), prior)
    /\ Counted(scalar, pre.scalar,
               IF call.op = "observe" THEN 1
               ELSE IF call.op = "observeMoments" THEN call.n ELSE 0)
    /\ Counted(single, pre.single, IF call.op = "sampleMoments" THEN call.n ELSE 0)
    /\ \A k \in VecIndices :
          /\ Counted(At(vec, k), At(pre.vec, k), CountedAt(k))
          /\ Counted(At(vsingle, k), At(pre.vsingle, k),
                     IF call.op = "sampleMomentsAt"
                     THEN (IF call.index = k THEN 2 * call.n ELSE call.n)
                     ELSE 0)
====
